---------------------------- MODULE Spec2Model ----------------------------
(***************************************************************************)
(* A model of the orchestration core of "ripped": the Media Converter      *)
(* (convert_to_mp4_in_place), the Bulk Conversion Sweep                    *)
(* (run_bulk_conversion) and the Download Orchestrator (perform_download), *)
(* and of what drives them: the argument parser (parse_args), the format   *)
(* planner (build_format_string), main and the menu loop (run_menu).       *)
(* Text the program parses is a sequence of one-character strings.  The    *)
(* logger with the session log of the menu (SpecLog) and the polling URL   *)
(* collector (SpecCollector) have specifications of their own.             *)
(*                                                                         *)
(* The file system is a function from canonical paths to file contents.    *)
(* The external tools are modelled at their interface: every call draws    *)
(* its outcome from the set of outcomes the tool can produce.  Whether     *)
(* ffmpeg is on the PATH is environment state that may change between any  *)
(* two steps of the program.  A user interruption (KeyboardInterrupt) is   *)
(* modelled where the sweep spends its time: between two candidates and    *)
(* inside the blocking run of the transcoding tool.  Removing a file the   *)
(* converter has just had written (output_path.unlink) is taken to         *)
(* succeed.                                                                *)
(***************************************************************************)
EXTENDS Integers, Sequences, FiniteSets, TLC

VARIABLES
    fs,            \* canonical path -> content of every existing file
    ffmpegOnPath,  \* whether ffmpeg is on the PATH
    pc,            \* position of the single thread of control
    args,          \* arguments of the call in progress
    loc,           \* locals of the call in progress (tool_at_start: whether
                   \* ffmpeg was on the PATH when the sweep started; outputs:
                   \* what each conversion that succeeded left behind)
    ret,           \* what the last call returned or raised
    cv,            \* record of the last convert_to_mp4_in_place call
    probes,        \* reachability checks made by the call in progress
    toolRuns,      \* launches of the transcoding tool by the call in progress
    fs0,           \* the file system when the call in progress started
    logs,          \* kinds of the messages logged by the call in progress
    hist,          \* phases the call in progress went through
    converted,     \* candidates the sweep in progress converted
    opsDone,       \* calls started so far
    top            \* the frame of main and of run_menu, when the call in
                   \* progress was made by one of them; in SpecLog the same
                   \* with the logger's state, in SpecCollector the frame
                   \* of the URL collector

vars == <<fs, ffmpegOnPath, pc, args, loc, ret, cv, probes, toolRuns, fs0,
          logs, hist, converted, opsDone, top>>

-----------------------------------------------------------------------------
(* Bounds of the model. *)

MaxOps == 1          \* calls made one after the other
MaxInitFiles == 3    \* files present before the first call

-----------------------------------------------------------------------------
(* Program constants. *)

EXIT_OK == 0
EXIT_USER_ERROR == 1
EXIT_DOWNLOAD_ERROR == 2
EXIT_FFMPEG_ERROR == 3

BULK_OK == 0
BULK_FAIL == 2

MEDIA_EXTENSIONS == {".webm", ".mkv"}

DEFAULT_OUTPUT_DIR == "downloads"

-----------------------------------------------------------------------------
(* Paths.  A path is [dir, stem, ext]; its name is stem \o ext.  Cwd is    *)
(* the directory the relative spellings are resolved against.              *)

Cwd == "/cwd/"

Path(d, s, e) == [dir |-> d, stem |-> s, ext |-> e]

None == Path("", "", "")

\* Path.expanduser().resolve(): a relative directory becomes absolute, an
\* absolute one stays as it is.
_normalize_path(p) ==
    IF p.dir \in {"downloads", "downloads/sub"}
    THEN [p EXCEPT !.dir = Cwd \o p.dir]
    ELSE p

\* Lower that leaves its argument as it is
Lower_Identity(s) == s

\* str.lower() on the suffixes that occur.
Lower(s) ==
    CASE s = ".MP4" -> ".mp4"
      [] s = ".WEBM" -> ".webm"
      [] s = ".MKV" -> ".mkv"
      [] s = "AUDIO" -> "audio"
      [] s = "VIDEO" -> "video"
      [] OTHER -> s

with_suffix(p, e) == [p EXCEPT !.ext = e]

Exists(fsys, p) == p \in DOMAIN fsys

Size(c) == IF c = "empty" THEN 0 ELSE 1

Remove(fsys, p) == [q \in (DOMAIN fsys) \ {p} |-> fsys[q]]

WriteFile(fsys, p, c) == [q \in (DOMAIN fsys) \cup {p} |-> IF q = p THEN c ELSE fsys[q]]

-----------------------------------------------------------------------------
(* The transcoding tool at its interface.  An outcome of one run is        *)
(* [run, del]: what the launch and the run of ffmpeg did, and whether the  *)
(* removal of the original that follows a good run goes through.           *)

RunOutcomes ==
    {"notfound",         \* the launch raises FileNotFoundError
     "nonzero_none",     \* exit status # 0, nothing written
     "nonzero_partial",  \* exit status # 0, a partial output written
     "zero_missing",     \* exit status 0, nothing written
     "zero_empty",       \* exit status 0, an output of size 0
     "zero_ok"}          \* exit status 0, a non-empty output

InterruptOutcomes ==
    {"interrupt_none",     \* KeyboardInterrupt during the run, nothing written
     "interrupt_partial"}  \* KeyboardInterrupt during the run, a partial output

DelOutcomes == {"ok", "oserror"}

ReturnCode(run) == IF run \in {"zero_missing", "zero_empty", "zero_ok"} THEN 0 ELSE 1

\* ffmpeg -y -i source ... output: what the run leaves on the file system.
\* -y makes the tool write over whatever is at the output path.
FfmpegWrites(fsys, out, run, good) ==
    CASE run \in {"nonzero_partial", "interrupt_partial"} -> WriteFile(fsys, out, "partial")
      [] run = "zero_empty" -> WriteFile(fsys, out, "empty")
      [] run = "zero_ok" -> WriteFile(fsys, out, good)
      [] OTHER -> fsys

\* _require_ffmpeg that never finds the tool missing
_require_ffmpeg_NoCheck(onPath) == TRUE

\* shutil.which("ffmpeg") is not None
_require_ffmpeg(onPath) == onPath

-----------------------------------------------------------------------------
(* _dedupe_output_path *)

\* DedupeName with the counter itself as the number of the suffix
DedupeName_CounterAsSuffix(base, counter) ==
    [base EXCEPT !.stem = base.stem \o "_converted"
                          \o (IF counter = 1 THEN "" ELSE "_" \o ToString(counter))]

DedupeName(base, counter) ==
    [base EXCEPT !.stem = base.stem \o "_converted"
                          \o (IF counter = 1 THEN "" ELSE "_" \o ToString(counter - 1))]

RECURSIVE DedupeLoop(_, _, _, _)
DedupeLoop(fsys, base, output_path, counter) ==
    IF Exists(fsys, output_path)
    THEN DedupeLoop(fsys, base, DedupeName(base, counter), counter + 1)
    ELSE [path |-> output_path, counter |-> counter]

_dedupe_output_path(fsys, base_output) == DedupeLoop(fsys, base_output, base_output, 1)

\* ChooseOutput with a single attempt at a new name instead of the loop
ChooseOutput_OneAttempt(fsys, desired_output) ==
    IF Exists(fsys, desired_output)
    THEN [path |-> DedupeName(desired_output, 1), counter |-> 2]
    ELSE [path |-> desired_output, counter |-> 1]

\* converter.py line 81
ChooseOutput(fsys, desired_output) ==
    IF Exists(fsys, desired_output)
    THEN _dedupe_output_path(fsys, desired_output)
    ELSE [path |-> desired_output, counter |-> 1]

-----------------------------------------------------------------------------
(* convert_to_mp4_in_place.  The result is the file system the call leaves *)
(* behind, what it returned (ret, None for failure) or raised (exc), and   *)
(* what it did on the way: the output path it chose (out), whether that    *)
(* path existed when it was chosen (existed), whether the tool was         *)
(* launched (ran), whether any file was looked at (touched) and the kinds  *)
(* of the messages it logged.                                              *)

ConvResult(fsys, r, e, o, ex, rn, t, l, c) ==
    [fs |-> fsys, ret |-> r, exc |-> e, out |-> o, existed |-> ex,
     ran |-> rn, touched |-> t, logs |-> l, counter |-> c]

\* AfterRun without the test of the output's size: an empty output counts
AfterRun_NoSizeCheck(fsys, source, output, existed, counter, env) ==
    LET fs1 == FfmpegWrites(fsys, output, env.run, "mp4out")
        cleaned == IF Exists(fs1, output) THEN Remove(fs1, output) ELSE fs1
    IN  CASE env.run = "notfound" ->
               ConvResult(fsys, None, "FileNotFoundError", output, existed,
                          FALSE, TRUE, {"converting"}, counter)
          [] env.run \in InterruptOutcomes ->
               ConvResult(fs1, None, "KeyboardInterrupt", output, existed,
                          TRUE, TRUE, {"converting"}, counter)
          [] ReturnCode(env.run) # 0 ->
               ConvResult(cleaned, None, "none", output, existed,
                          TRUE, TRUE, {"converting", "conversion_failed"}, counter)
          [] ~Exists(fs1, output) ->
               ConvResult(cleaned, None, "none", output, existed,
                          TRUE, TRUE, {"converting", "output_not_created"}, counter)
          [] env.del = "oserror" ->
               ConvResult(fs1, output, "none", output, existed,
                          TRUE, TRUE, {"converting", "could_not_delete"}, counter)
          [] OTHER ->
               ConvResult(Remove(fs1, source), output, "none", output, existed,
                          TRUE, TRUE, {"converting", "converted"}, counter)

\* AfterRun with the original removed as soon as the tool exits with status 0,
\* before the output is looked at
AfterRun_DeleteBeforeCheck(fsys, source, output, existed, counter, env) ==
    LET fs1 == FfmpegWrites(fsys, output, env.run, "mp4out")
        cleaned == IF Exists(fs1, output) THEN Remove(fs1, output) ELSE fs1
    IN  CASE env.run = "notfound" ->
               ConvResult(fsys, None, "FileNotFoundError", output, existed,
                          FALSE, TRUE, {"converting"}, counter)
          [] env.run \in InterruptOutcomes ->
               ConvResult(fs1, None, "KeyboardInterrupt", output, existed,
                          TRUE, TRUE, {"converting"}, counter)
          [] ReturnCode(env.run) # 0 ->
               ConvResult(cleaned, None, "none", output, existed,
                          TRUE, TRUE, {"converting", "conversion_failed"}, counter)
          [] ~Exists(fs1, output) \/ Size(fs1[output]) = 0 ->
               ConvResult(Remove(cleaned, source), None, "none", output, existed,
                          TRUE, TRUE, {"converting", "output_not_created"}, counter)
          [] env.del = "oserror" ->
               ConvResult(fs1, output, "none", output, existed,
                          TRUE, TRUE, {"converting", "could_not_delete"}, counter)
          [] OTHER ->
               ConvResult(Remove(fs1, source), output, "none", output, existed,
                          TRUE, TRUE, {"converting", "converted"}, counter)

\* converter.py lines 98-119: from the run of the tool to the return.
AfterRun(fsys, source, output, existed, counter, env) ==
    LET fs1 == FfmpegWrites(fsys, output, env.run, "mp4out")
        cleaned == IF Exists(fs1, output) THEN Remove(fs1, output) ELSE fs1
    IN  CASE env.run = "notfound" ->
               ConvResult(fsys, None, "FileNotFoundError", output, existed,
                          FALSE, TRUE, {"converting"}, counter)
          [] env.run \in InterruptOutcomes ->
               ConvResult(fs1, None, "KeyboardInterrupt", output, existed,
                          TRUE, TRUE, {"converting"}, counter)
          [] ReturnCode(env.run) # 0 ->
               ConvResult(cleaned, None, "none", output, existed,
                          TRUE, TRUE, {"converting", "conversion_failed"}, counter)
          [] ~Exists(fs1, output) \/ Size(fs1[output]) = 0 ->
               ConvResult(cleaned, None, "none", output, existed,
                          TRUE, TRUE, {"converting", "output_not_created"}, counter)
          [] env.del = "oserror" ->
               ConvResult(fs1, output, "none", output, existed,
                          TRUE, TRUE, {"converting", "could_not_delete"}, counter)
          [] OTHER ->
               ConvResult(Remove(fs1, source), output, "none", output, existed,
                          TRUE, TRUE, {"converting", "converted"}, counter)

convert_to_mp4_in_place(fsys, onPath, input_path, env) ==
    LET source == _normalize_path(input_path)
        suffix == Lower(source.ext)
        desired_output == with_suffix(source, ".mp4")
        chosen == ChooseOutput(fsys, desired_output)
    IN  IF ~_require_ffmpeg(onPath)
        THEN ConvResult(fsys, None, "FileNotFoundError", None, FALSE,
                        FALSE, FALSE, {}, 0)
        ELSE IF ~Exists(fsys, source)
        THEN ConvResult(fsys, None, "none", None, FALSE,
                        FALSE, TRUE, {"input_missing"}, 0)
        ELSE IF suffix = ".mp4"
        THEN ConvResult(fsys, source, "none", None, FALSE,
                        FALSE, TRUE, {"already_mp4"}, 0)
        ELSE IF suffix \notin MEDIA_EXTENSIONS
        THEN ConvResult(fsys, None, "none", None, FALSE,
                        FALSE, TRUE, {"unsupported"}, 0)
        ELSE AfterRun(fsys, source, chosen.path, Exists(fsys, chosen.path),
                      chosen.counter, env)

-----------------------------------------------------------------------------
(* find_media_files *)

Dirs == {Cwd \o "downloads", Cwd \o "downloads/sub"}

\* the directories os.walk(root) visits, the root first
Beneath(d) == IF d = Cwd \o "downloads" THEN <<Cwd \o "downloads", Cwd \o "downloads/sub">>
              ELSE <<d>>

is_file(fsys, p) == Exists(fsys, p)

is_dir(p) == p.stem = "" /\ p.ext = "" /\ p.dir \in Dirs

\* IsCandidate that takes every file
IsCandidate_AnyFile(p) == TRUE

IsCandidate(p) == Lower(p.ext) \in MEDIA_EXTENSIONS

\* the sequences that list every element of the finite set S once
Orders(S) == {q \in [1..Cardinality(S) -> S] : \A x \in S : \E i \in DOMAIN q : q[i] = x}

RECURSIVE Walks(_, _)
\* the lists os.walk can produce: directory after directory, the matching
\* files of one directory in any order
Walks(fsys, ds) ==
    IF ds = <<>> THEN {<<>>}
    ELSE LET here == {p \in DOMAIN fsys : p.dir = Head(ds) /\ IsCandidate(p)}
         IN  {a \o b : a \in Orders(here), b \in Walks(fsys, Tail(ds))}

find_media_files(fsys, target_path) ==
    LET root == _normalize_path(target_path)
    IN  IF is_file(fsys, root)
        THEN {IF IsCandidate(root) THEN <<root>> ELSE <<>>}
        ELSE IF ~is_dir(root)
        THEN {<<>>}
        ELSE Walks(fsys, Beneath(root.dir))

-----------------------------------------------------------------------------
(* The state machine. *)

NoArgs == [fn |-> "none", mode |-> "", quality |-> 0, url |-> "", path |-> None]

NoLoc == [format_str |-> "", downloaded |-> None, final |-> None, files |-> <<>>,
          idx |-> 0, success_count |-> 0, failure_count |-> 0, tool_at_start |-> FALSE,
          outputs |-> {}, mkdir |-> FALSE, fetches |-> 0]

NoRet == [fn |-> "none", kind |-> "none", code |-> 0, path |-> None, exc |-> "none"]

NoEnv == [run |-> "none", del |-> "none"]

NoCv == [called |-> FALSE, input |-> None, env |-> NoEnv, onPath |-> FALSE,
         before |-> <<>>, res |-> ConvResult(<<>>, None, "none", None, FALSE, FALSE, FALSE, {}, 0)]

\* Optional[int]: <<>> is None, <<n>> is n
NoQuality == <<>>

\* ParsedArgs (parser.py lines 6-11), with what parse_args raised (exc, msg)
\* and the fields it had validated by then
ParsedArgs(e, msg, mode, quality, url, path, validated) ==
    [exc |-> e, msg |-> msg, mode |-> mode, quality |-> quality, url |-> url,
     path |-> path, validated |-> validated]

NoParsed == ParsedArgs("unparsed", "", "", NoQuality, "", None, {})

\* what prompt_quality returns: the sentinel, or a quality
NoSelection == [sentinel |-> TRUE, value |-> NoQuality]

\* Optional[float]: <<>> is None, <<n, d>> is the ratio n / d
NoProgress == <<>>

\* no call of main in progress.  argv: the argument list; parsed: what
\* parse_args made of it; menu: run_menu is running; mode, quality: the
\* settings of the menu; sink: the menu's log sink is installed; choice: the
\* last option read; selected, selected_quality: what prompt_mode and
\* prompt_quality returned in the last round of the loop, if they were called
\* in it; urls, idx: the URLs of the bulk download in progress and the
\* position in them; status_message, status_progress: what the banner shows
\* of the operation in progress; ops: calls the menu has dispatched
NoTop == [fn |-> "none", argv |-> <<>>, parsed |-> NoParsed, menu |-> FALSE,
          mode |-> "", quality |-> NoQuality, sink |-> FALSE, choice |-> "",
          typed |-> <<>>, selected |-> "", selected_quality |-> NoSelection,
          urls |-> <<>>, idx |-> 0, status_message |-> "",
          status_progress |-> NoProgress, ops |-> 0]

ReturnCodeOf(f, c) == [fn |-> f, kind |-> "code", code |-> c, path |-> None, exc |-> "none"]

ReturnPath(f, p) == [fn |-> f, kind |-> "path", code |-> 0, path |-> p, exc |-> "none"]

Raise(f, e) == [fn |-> f, kind |-> "raise", code |-> 0, path |-> None, exc |-> e]

Dl == Cwd \o "downloads"

\* the files that may be there before the first call
InitUniverse ==
    {Path(Dl, "a", ".webm"), Path(Dl, "a", ".mkv"), Path(Dl, "a", ".mp4"),
     Path(Dl, "a_converted", ".mp4"), Path(Dl, "a_converted_1", ".mp4"),
     Path(Dl, "d", ".MP4"),
     Path(Dl \o "/sub", "b", ".WEBM")}

\* the outcomes of one conversion: del matters after a good run only
ConvEnvs == {[run |-> r, del |-> "ok"] : r \in RunOutcomes}
            \cup {[run |-> "zero_ok", del |-> "oserror"]}

SweepEnvs == ConvEnvs \cup {[run |-> r, del |-> "ok"] : r \in InterruptOutcomes}

\* the record of one call of convert_to_mp4_in_place; the outcome drawn for
\* the tool is recorded only if the call got as far as choosing an output
CvOf(input, env, res) ==
    [called |-> TRUE, input |-> input,
     env |-> IF res.out = None THEN NoEnv ELSE env,
     onPath |-> ffmpegOnPath, before |-> fs, res |-> res]

Init ==
    /\ \E S \in SUBSET InitUniverse :
          /\ Cardinality(S) <= MaxInitFiles
          /\ fs = [p \in S |-> "orig"]
    /\ ffmpegOnPath \in BOOLEAN
    /\ pc = "idle"
    /\ args = NoArgs
    /\ loc = NoLoc
    /\ ret = NoRet
    /\ cv = NoCv
    /\ probes = 0
    /\ toolRuns = 0
    /\ fs0 = fs
    /\ logs = {}
    /\ hist = <<>>
    /\ converted = {}
    /\ opsDone = 0
    /\ top = NoTop

\* ffmpeg is installed or removed while the program runs
EnvChange ==
    /\ ffmpegOnPath' = ~ffmpegOnPath
    /\ UNCHANGED <<top, fs, pc, args, loc, ret, cv, probes, toolRuns, fs0, logs, hist,
                   converted, opsDone>>

\* the paths a caller hands to convert_to_mp4_in_place directly
ConvertInputs ==
    InitUniverse
    \cup {Path(DEFAULT_OUTPUT_DIR, "a", ".webm"), Path(DEFAULT_OUTPUT_DIR, "a", ".mp4"),
          Path(DEFAULT_OUTPUT_DIR, "d", ".MP4"), Path(Dl, "c", ".txt")}

\* one call of convert_to_mp4_in_place from outside the program
ConvertCall ==
    /\ pc = "idle"
    /\ opsDone < MaxOps
    /\ \E input \in ConvertInputs, env \in ConvEnvs :
          LET r == convert_to_mp4_in_place(fs, ffmpegOnPath, input, env)
          IN  /\ fs' = r.fs
              /\ cv' = CvOf(input, env, r)
              /\ ret' = IF r.exc = "none"
                        THEN ReturnPath("convert_to_mp4_in_place", r.ret)
                        ELSE Raise("convert_to_mp4_in_place", r.exc)
              /\ args' = [NoArgs EXCEPT !.fn = "convert_to_mp4_in_place", !.path = input]
              /\ logs' = r.logs
              /\ toolRuns' = IF r.ran THEN 1 ELSE 0
    /\ probes' = 1
    /\ fs0' = fs
    /\ loc' = NoLoc
    /\ hist' = <<>>
    /\ converted' = {}
    /\ pc' = "returned"
    /\ opsDone' = opsDone + 1
    /\ UNCHANGED <<top, ffmpegOnPath>>

-----------------------------------------------------------------------------
(* run_bulk_conversion *)

\* the paths a sweep is started on: directories and single files
BulkTargets ==
    {Path(DEFAULT_OUTPUT_DIR, "", ""), Path(Dl \o "/sub", "", ""), Path("/nowhere", "", ""),
     Path(Dl, "a", ".webm"), Path(DEFAULT_OUTPUT_DIR, "a", ".mp4")}

\* converter.py line 158
TallyCode(success_count) == IF success_count > 0 THEN BULK_OK ELSE BULK_FAIL

\* converter.py lines 128-142: run_bulk_conversion(target) up to the entry
\* of the loop
BulkBegin(target) ==
    /\ \E files \in find_media_files(fs, target) :
          /\ args' = [NoArgs EXCEPT !.fn = "run_bulk_conversion", !.path = target]
          /\ IF files = <<>>
             THEN /\ logs' = {"no_files"}
                  /\ probes' = 0
                  /\ ret' = ReturnCodeOf("run_bulk_conversion", BULK_FAIL)
                  /\ pc' = "returned"
                  /\ loc' = [NoLoc EXCEPT !.tool_at_start = ffmpegOnPath]
             ELSE IF ~_require_ffmpeg(ffmpegOnPath)
             THEN /\ logs' = {"ffmpeg_missing"}
                  /\ probes' = 1
                  /\ ret' = ReturnCodeOf("run_bulk_conversion", BULK_FAIL)
                  /\ pc' = "returned"
                  /\ loc' = [NoLoc EXCEPT !.files = files, !.tool_at_start = ffmpegOnPath]
             ELSE /\ logs' = {}
                  /\ probes' = 1
                  /\ ret' = NoRet
                  /\ pc' = "bulk_loop"
                  /\ loc' = [NoLoc EXCEPT !.files = files, !.idx = 1,
                                           !.tool_at_start = ffmpegOnPath]
    /\ toolRuns' = 0
    /\ fs0' = fs
    /\ hist' = <<>>
    /\ converted' = {}
    /\ cv' = NoCv
    /\ UNCHANGED <<fs, ffmpegOnPath>>

\* a call of run_bulk_conversion from outside the program
BulkStart ==
    /\ pc = "idle"
    /\ opsDone < MaxOps
    /\ \E target \in BulkTargets : BulkBegin(target)
    /\ opsDone' = opsDone + 1
    /\ UNCHANGED top

\* what a successful conversion of media_file left: the output it returned
\* and whether the original is gone
Made(media_file, r) ==
    [file |-> media_file, out |-> r.ret,
     deleted |-> ~Exists(r.fs, _normalize_path(media_file))]

\* converter.py lines 145-158: one candidate, and the return after the last
BulkStep ==
    /\ pc = "bulk_loop"
    /\ \E env \in SweepEnvs :
          LET media_file == loc.files[loc.idx]
              r == convert_to_mp4_in_place(fs, ffmpegOnPath, media_file, env)
              success_count == loc.success_count + (IF r.ret # None THEN 1 ELSE 0)
              failure_count == loc.failure_count + (IF r.ret # None THEN 0 ELSE 1)
          IN  /\ fs' = r.fs
              /\ cv' = CvOf(media_file, env, r)
              /\ probes' = probes + 1
              /\ toolRuns' = toolRuns + (IF r.ran THEN 1 ELSE 0)
              /\ CASE r.exc = "FileNotFoundError" ->
                        /\ ret' = Raise("run_bulk_conversion", r.exc)
                        /\ pc' = "returned"
                        /\ logs' = logs \cup r.logs
                        /\ UNCHANGED <<loc, converted>>
                   [] r.exc = "KeyboardInterrupt" ->
                        /\ ret' = ReturnCodeOf("run_bulk_conversion", TallyCode(loc.success_count))
                        /\ pc' = "returned"
                        /\ logs' = logs \cup r.logs \cup {"interrupted", "processed"}
                        /\ UNCHANGED <<loc, converted>>
                   [] OTHER ->
                        /\ loc' = [loc EXCEPT !.idx = @ + 1,
                                              !.success_count = success_count,
                                              !.failure_count = failure_count,
                                              !.outputs = IF r.ret # None
                                                          THEN @ \cup {Made(media_file, r)}
                                                          ELSE @]
                        /\ converted' = IF r.ret # None THEN converted \cup {media_file}
                                        ELSE converted
                        /\ IF loc.idx = Len(loc.files)
                           THEN /\ ret' = ReturnCodeOf("run_bulk_conversion", TallyCode(success_count))
                                /\ pc' = "returned"
                                /\ logs' = logs \cup r.logs \cup {"processed"}
                           ELSE /\ ret' = ret
                                /\ pc' = pc
                                /\ logs' = logs \cup r.logs
    /\ UNCHANGED <<top, ffmpegOnPath, args, fs0, hist, opsDone>>

\* BulkInterrupt with the interruption logged and the loop carried on
BulkInterrupt_KeepsGoing ==
    /\ pc = "bulk_loop"
    /\ "interrupted" \notin logs
    /\ logs' = logs \cup {"interrupted"}
    /\ UNCHANGED <<top, fs, ffmpegOnPath, pc, args, loc, ret, cv, probes, toolRuns, fs0,
                   hist, converted, opsDone>>

\* a KeyboardInterrupt between two candidates (converter.py lines 152-158)
BulkInterrupt ==
    /\ pc = "bulk_loop"
    /\ ret' = ReturnCodeOf("run_bulk_conversion", TallyCode(loc.success_count))
    /\ pc' = "returned"
    /\ logs' = logs \cup {"interrupted", "processed"}
    /\ UNCHANGED <<top, fs, ffmpegOnPath, args, loc, cv, probes, toolRuns, fs0, hist,
                   converted, opsDone>>

-----------------------------------------------------------------------------
(* build_format_string and convert_to_mp3 *)

\* build_format_string that plans every video as unbounded
build_format_string_IgnoresQuality(mode, quality) ==
    LET mode_lower == Lower(mode)
    IN  IF mode_lower \notin {"audio", "video"}
        THEN [exc |-> "ValueError", value |-> ""]
        ELSE IF mode_lower = "audio"
        THEN [exc |-> "none", value |-> "bestaudio/best"]
        ELSE [exc |-> "none", value |-> "bestvideo+bestaudio/best"]

\* downloader.py lines 29-42
build_format_string(mode, quality) ==
    LET mode_lower == Lower(mode)
    IN  IF mode_lower \notin {"audio", "video"}
        THEN [exc |-> "ValueError", value |-> ""]
        ELSE IF mode_lower = "audio"
        THEN [exc |-> "none", value |-> "bestaudio/best"]
        ELSE IF quality = NoQuality
        THEN [exc |-> "none", value |-> "bestvideo+bestaudio/best"]
        ELSE [exc |-> "none",
              value |-> "bestvideo[height<=" \o ToString(quality[1]) \o "]+bestaudio/best"]

\* ffmpeg_tools.py lines 11-27; subprocess.run(check=True) raises
\* CalledProcessError on a non-zero exit status
convert_to_mp3(fsys, onPath, input_path, output_path, env) ==
    LET out == _normalize_path(output_path)
        fs1 == FfmpegWrites(fsys, out, env.run, "mp3out")
    IN  IF ~_require_ffmpeg(onPath)
        THEN [fs |-> fsys, exc |-> "FileNotFoundError", ran |-> FALSE]
        ELSE IF env.run = "notfound"
        THEN [fs |-> fsys, exc |-> "FileNotFoundError", ran |-> FALSE]
        ELSE IF ReturnCode(env.run) # 0
        THEN [fs |-> fs1, exc |-> "CalledProcessError", ran |-> TRUE]
        ELSE [fs |-> fs1, exc |-> "none", ran |-> TRUE]

-----------------------------------------------------------------------------
(* perform_download *)

PdModes == {"audio", "video", "AUDIO", "convert"}

PdQualities == {NoQuality, <<720>>}

PdUrls == {"http://u"}

\* what the extraction capability can do with a request
FetchOutcomes == {"RuntimeError", "Exception", "ok"}

\* the extensions of the files the extraction capability leaves
DlExts == {".webm", ".mp4", ".m4a"}

\* PdBegin with the output directory made before the format is planned
PdBegin_MkdirFirst(mode, quality, url) ==
    /\    LET f == build_format_string(mode, quality)
          IN  /\ args' = [NoArgs EXCEPT !.fn = "perform_download", !.mode = mode,
                                        !.quality = quality, !.url = url]
              /\ IF f.exc # "none"
                 THEN /\ ret' = ReturnCodeOf("perform_download", EXIT_USER_ERROR)
                      /\ pc' = "returned"
                      /\ loc' = [NoLoc EXCEPT !.mkdir = TRUE]
                      /\ logs' = {"value_error"}
                      /\ hist' = <<"Planning", "Failed">>
                 ELSE /\ ret' = NoRet
                      /\ pc' = "pd_fetching"
                      /\ loc' = [NoLoc EXCEPT !.format_str = f.value, !.mkdir = TRUE]
                      /\ logs' = {"plan"}
                      /\ hist' = <<"Planning", "Fetching">>
    /\ probes' = 0
    /\ toolRuns' = 0
    /\ fs0' = fs
    /\ converted' = {}
    /\ cv' = NoCv
    /\ UNCHANGED <<fs, ffmpegOnPath>>

\* main.py lines 79-92: perform_download(mode, quality, url) from planning
\* up to the call of the extraction capability
PdBegin(mode, quality, url) ==
    /\    LET f == build_format_string(mode, quality)
          IN  /\ args' = [NoArgs EXCEPT !.fn = "perform_download", !.mode = mode,
                                        !.quality = quality, !.url = url]
              /\ IF f.exc # "none"
                 THEN /\ ret' = ReturnCodeOf("perform_download", EXIT_USER_ERROR)
                      /\ pc' = "returned"
                      /\ loc' = NoLoc
                      /\ logs' = {"value_error"}
                      /\ hist' = <<"Planning", "Failed">>
                 ELSE /\ ret' = NoRet
                      /\ pc' = "pd_fetching"
                      /\ loc' = [NoLoc EXCEPT !.format_str = f.value, !.mkdir = TRUE]
                      /\ logs' = {"plan"}
                      /\ hist' = <<"Planning", "Fetching">>
    /\ probes' = 0
    /\ toolRuns' = 0
    /\ fs0' = fs
    /\ converted' = {}
    /\ cv' = NoCv
    /\ UNCHANGED <<fs, ffmpegOnPath>>

\* a call of perform_download from outside the program
PdStart ==
    /\ pc = "idle"
    /\ opsDone < MaxOps
    /\ \E mode \in PdModes, quality \in PdQualities, url \in PdUrls :
          PdBegin(mode, quality, url)
    /\ opsDone' = opsDone + 1
    /\ UNCHANGED top

\* PdFetch with a failure of the extraction logged and the call carried on
\* with the file the request would have left
PdFetch_FailureFallsThrough ==
    /\ pc = "pd_fetching"
    /\ \E o \in FetchOutcomes, ext \in DlExts :
          LET downloaded_path == Path(DEFAULT_OUTPUT_DIR, "a", ext)
          IN  /\ fs' = IF o = "ok" THEN WriteFile(fs, _normalize_path(downloaded_path), "dl")
                        ELSE fs
              /\ loc' = [loc EXCEPT !.downloaded = downloaded_path, !.fetches = @ + 1]
              /\ logs' = IF o = "ok" THEN logs
                          ELSE logs \cup {IF o = "RuntimeError" THEN "ytdlp_missing"
                                          ELSE "download_failed"}
    /\ pc' = "pd_normalizing"
    /\ hist' = Append(hist, "Normalizing")
    /\ UNCHANGED <<top, ffmpegOnPath, args, ret, cv, probes, toolRuns, fs0, converted,
                   opsDone>>

\* main.py lines 94-103: the extraction capability is called
PdFetch ==
    /\ pc = "pd_fetching"
    /\ \E o \in FetchOutcomes, ext \in DlExts :
          IF o = "ok"
          THEN LET downloaded_path == Path(DEFAULT_OUTPUT_DIR, "a", ext)
               IN  /\ fs' = WriteFile(fs, _normalize_path(downloaded_path), "dl")
                   /\ loc' = [loc EXCEPT !.downloaded = downloaded_path,
                                         !.fetches = @ + 1]
                   /\ pc' = "pd_normalizing"
                   /\ hist' = Append(hist, "Normalizing")
                   /\ UNCHANGED <<ret, logs>>
          ELSE /\ ret' = ReturnCodeOf("perform_download", EXIT_DOWNLOAD_ERROR)
               /\ pc' = "returned"
               /\ logs' = logs \cup {IF o = "RuntimeError" THEN "ytdlp_missing" ELSE "download_failed"}
               /\ hist' = Append(hist, "Failed")
               /\ loc' = [loc EXCEPT !.fetches = @ + 1]
               /\ UNCHANGED fs
    /\ UNCHANGED <<top, ffmpegOnPath, args, cv, probes, toolRuns, fs0, converted,
                   opsDone>>

\* main.py lines 105-115: the audio branch
PdNormalizeAudio ==
    /\ pc = "pd_normalizing"
    /\ args.mode = "audio"
    /\ \E env \in ConvEnvs :
          LET mp3_path == with_suffix(loc.downloaded, ".mp3")
              r == convert_to_mp3(fs, ffmpegOnPath, loc.downloaded, mp3_path, env)
          IN  /\ fs' = r.fs
              /\ toolRuns' = toolRuns + (IF r.ran THEN 1 ELSE 0)
              /\ IF r.exc # "none"
                 THEN /\ ret' = ReturnCodeOf("perform_download", EXIT_FFMPEG_ERROR)
                      /\ logs' = logs \cup {IF r.exc = "FileNotFoundError"
                                            THEN "ffmpeg_missing" ELSE "ffmpeg_error"}
                      /\ hist' = Append(hist, "Failed")
                      /\ loc' = loc
                 ELSE /\ ret' = ReturnCodeOf("perform_download", EXIT_OK)
                      /\ logs' = logs \cup {"saved_audio"}
                      /\ hist' = Append(hist, "Done")
                      /\ loc' = [loc EXCEPT !.final = mp3_path]
    /\ pc' = "returned"
    /\ probes' = probes + 1
    /\ UNCHANGED <<top, ffmpegOnPath, args, cv, fs0, converted, opsDone>>

\* VideoOutcome with the tool-unavailable error handled like a failed
\* conversion: the download still counts as a success
VideoOutcome_ToolMissingIsWarning(r, downloaded_path) ==
    CASE r.exc = "none" /\ r.ret # None ->
           [code |-> EXIT_OK, final |-> r.ret, phase |-> "Done",
            logs |-> {"downloaded_and_converted"}]
      [] OTHER ->
           [code |-> EXIT_OK, final |-> downloaded_path, phase |-> "DoneWithWarning",
            logs |-> {"keeping_original", "saved_video"}]

\* VideoOutcome with the converter's result taken as the final artifact
\* whether or not it is a path
VideoOutcome_FinalIsResult(r, downloaded_path) ==
    CASE r.exc = "FileNotFoundError" ->
           [code |-> EXIT_FFMPEG_ERROR, final |-> downloaded_path, phase |-> "Failed",
            logs |-> {"ffmpeg_missing"}]
      [] r.ret # None ->
           [code |-> EXIT_OK, final |-> r.ret, phase |-> "Done",
            logs |-> {"downloaded_and_converted"}]
      [] OTHER ->
           [code |-> EXIT_OK, final |-> r.ret, phase |-> "DoneWithWarning",
            logs |-> {"keeping_original", "saved_video"}]

\* main.py lines 116-130: what the video branch makes of the converter's
\* result r for the downloaded file
VideoOutcome(r, downloaded_path) ==
    CASE r.exc = "FileNotFoundError" ->
           [code |-> EXIT_FFMPEG_ERROR, final |-> downloaded_path, phase |-> "Failed",
            logs |-> {"ffmpeg_missing"}]
      [] r.ret # None ->
           [code |-> EXIT_OK, final |-> r.ret, phase |-> "Done",
            logs |-> {"downloaded_and_converted"}]
      [] OTHER ->
           [code |-> EXIT_OK, final |-> downloaded_path, phase |-> "DoneWithWarning",
            logs |-> {"keeping_original", "saved_video"}]

\* main.py lines 116-130: the video branch
PdNormalizeVideo ==
    /\ pc = "pd_normalizing"
    /\ args.mode # "audio"
    /\ \E env \in ConvEnvs :
          LET r == convert_to_mp4_in_place(fs, ffmpegOnPath, loc.downloaded, env)
              o == VideoOutcome(r, loc.downloaded)
          IN  /\ fs' = r.fs
              /\ cv' = CvOf(loc.downloaded, env, r)
              /\ toolRuns' = toolRuns + (IF r.ran THEN 1 ELSE 0)
              /\ ret' = ReturnCodeOf("perform_download", o.code)
              /\ logs' = logs \cup r.logs \cup o.logs
              /\ hist' = Append(hist, o.phase)
              /\ loc' = [loc EXCEPT !.final = o.final]
    /\ pc' = "returned"
    /\ probes' = probes + 1
    /\ UNCHANGED <<top, ffmpegOnPath, args, fs0, converted, opsDone>>

-----------------------------------------------------------------------------

\* the caller has taken the result: the frame of the call is gone
Return ==
    /\ pc = "returned"
    /\ pc' = "idle"
    /\ args' = NoArgs
    /\ loc' = NoLoc
    /\ ret' = NoRet
    /\ cv' = NoCv
    /\ probes' = 0
    /\ toolRuns' = 0
    /\ fs0' = fs
    /\ logs' = {}
    /\ hist' = <<>>
    /\ converted' = {}
    /\ UNCHANGED <<top, fs, ffmpegOnPath, opsDone>>

Next ==
    \/ EnvChange
    \/ Return
    \/ ConvertCall
    \/ BulkStart
    \/ BulkStep
    \/ BulkInterrupt
    \/ PdStart
    \/ PdFetch
    \/ PdNormalizeAudio
    \/ PdNormalizeVideo

Spec == Init /\ [][Next]_vars

-----------------------------------------------------------------------------
(* Properties of perform_download. *)

Last(q) == q[Len(q)]

PdReturned == pc = "returned" /\ ret.fn = "perform_download"

\* the video branch ran: a mode that plans as video, and the fetch succeeded
PdVideoFetched == PdReturned /\ Lower(args.mode) = "video" /\ Len(hist) = 4

\* the transcoding tool was not reachable for the last converter call: not on
\* the PATH at the check, or gone when it was launched
ToolUnreachable == cv.called /\ (~cv.onPath \/ cv.env.run = "notfound")

PdFailedExits(modes3) ==
    Last(hist) = "Failed" =>
        \/ ret.code = EXIT_USER_ERROR /\ hist = <<"Planning", "Failed">>
        \/ ret.code = EXIT_DOWNLOAD_ERROR /\ hist = <<"Planning", "Fetching", "Failed">>
        \/ /\ ret.code = EXIT_FFMPEG_ERROR
           /\ hist = <<"Planning", "Fetching", "Normalizing", "Failed">>
           /\ args.mode \in modes3

\* C1 as stated: in video mode, once the fetch has succeeded the call ends in
\* Done or DoneWithWarning with exit code 0 whatever happens during
\* normalization; a Failed exit comes from Planning (1), from Fetching (2) or,
\* in audio mode only, from Normalizing (3).
C1_AsStated ==
    /\ PdVideoFetched => ret.code = EXIT_OK /\ Last(hist) \in {"Done", "DoneWithWarning"}
    /\ PdReturned => PdFailedExits({"audio"})

\* C1, amended: in video mode, once the fetch has succeeded the call ends in
\* Done or DoneWithWarning with exit code 0 unless the transcoding tool is
\* unreachable, and then it ends in Failed with exit code 3.  A Failed exit
\* comes from Planning (1), from Fetching (2) or from Normalizing (3), in
\* either mode; every other exit has code 0.
C1_VideoEndsOkUnlessToolUnreachable ==
    /\ PdVideoFetched =>
          IF ToolUnreachable
          THEN ret.code = EXIT_FFMPEG_ERROR /\ Last(hist) = "Failed"
          ELSE ret.code = EXIT_OK /\ Last(hist) \in {"Done", "DoneWithWarning"}
    /\ PdReturned =>
          /\ PdFailedExits(PdModes)
          /\ Last(hist) \in {"Failed", "Done", "DoneWithWarning"}
          /\ (ret.code = EXIT_OK) = (Last(hist) # "Failed")

\* a video download whose normalization found the tool unreachable
C1_Witness == PdVideoFetched /\ ToolUnreachable /\ ret.code = EXIT_FFMPEG_ERROR

\* C2: in video mode, when convert_to_mp4_in_place returns no path the
\* downloaded file stays where it is and is the final artifact, the warning
\* is logged and perform_download returns 0; when it returns a path, that
\* path is the final artifact and the code is 0.
C2_VideoFallbackKeepsDownload ==
    (PdVideoFetched /\ cv.res.exc = "none") =>
        LET downloaded == _normalize_path(loc.downloaded)
        IN  IF cv.res.ret = None
            THEN /\ loc.final = loc.downloaded
                 /\ downloaded \in DOMAIN fs
                 /\ fs[downloaded] = cv.before[downloaded]
                 /\ "keeping_original" \in logs
                 /\ ret.code = EXIT_OK
            ELSE /\ loc.final = cv.res.ret
                 /\ loc.final \in DOMAIN fs
                 /\ ret.code = EXIT_OK

\* a video download whose conversion failed after the tool ran
C2_Witness ==
    /\ PdVideoFetched
    /\ cv.res.ret = None
    /\ cv.env.run = "nonzero_partial"
    /\ loc.final = loc.downloaded

-----------------------------------------------------------------------------
(* Properties of the choice of the output path. *)

\* the last converter call got as far as choosing an output path
ConvChose == cv.called /\ cv.res.out # None

\* the output the last converter call wanted: the stem of its input with .mp4
DesiredOutput == with_suffix(_normalize_path(cv.input), ".mp4")

\* the k-th name tried after a collision, as the code numbers them
NameInCode(stem, k) ==
    IF k = 1 THEN stem \o "_converted" ELSE stem \o "_converted_" \o ToString(k - 1)

\* the k-th name tried after a collision, as C3 numbers them
NameInClaim(stem, k) ==
    IF k = 1 THEN stem \o "_converted" ELSE stem \o "_converted_" \o ToString(k)

\* the chosen output is the desired one if that is free, and else the first
\* free one of the names Name(stem, 1), Name(stem, 2), ...
FirstFreeChosen(Name(_, _)) ==
    LET Tried(k) == [DesiredOutput EXCEPT !.stem = Name(DesiredOutput.stem, k)]
    IN  IF DesiredOutput \notin DOMAIN cv.before
        THEN cv.res.out = DesiredOutput
        ELSE \E k \in 1..(Cardinality(DOMAIN cv.before) + 1) :
                /\ cv.res.out = Tried(k)
                /\ Tried(k) \notin DOMAIN cv.before
                /\ \A j \in 1..(k - 1) : Tried(j) \in DOMAIN cv.before

\* C3 as stated: if <stem>.mp4 exists the names tried are <stem>_converted.mp4,
\* <stem>_converted_2.mp4, <stem>_converted_3.mp4, ... and the first free one
\* is chosen.
C3_AsStated == ConvChose => FirstFreeChosen(NameInClaim)

\* C3, amended: if <stem>.mp4 exists the names tried are <stem>_converted.mp4,
\* <stem>_converted_1.mp4, <stem>_converted_2.mp4, ... in increasing order and
\* the first free one is chosen; with <stem>.mp4 present the second conversion
\* of the stem produces _converted and the third _converted_1.
C3_DedupeNamesInOrder == ConvChose => FirstFreeChosen(NameInCode)

\* a conversion that found <stem>.mp4 and <stem>_converted.mp4 taken
C3_Witness ==
    /\ ConvChose
    /\ DesiredOutput \in DOMAIN cv.before
    /\ [DesiredOutput EXCEPT !.stem = "a_converted"] \in DOMAIN cv.before
    /\ cv.res.out.stem = "a_converted_1"

\* C4: the output path handed to the transcoding tool never names a file that
\* exists when it is chosen; no file that was there before a conversion, or
\* before a sweep, has other content after it; the deduplication loop ends
\* after at most as many rounds as there are files.
C4_NeverOverwrite ==
    /\ ConvChose =>
          /\ cv.res.out \notin DOMAIN cv.before
          /\ \A p \in DOMAIN cv.before \cap DOMAIN cv.res.fs : cv.res.fs[p] = cv.before[p]
          /\ cv.res.counter <= Cardinality(DOMAIN cv.before) + 1
    /\ args.fn \in {"run_bulk_conversion", "convert_to_mp4_in_place"} =>
          \A p \in DOMAIN fs0 \cap DOMAIN fs : fs[p] = fs0[p]

\* a sweep that converted two candidates of one stem next to an existing
\* <stem>.mp4
C4_Witness ==
    /\ args.fn = "run_bulk_conversion"
    /\ Cardinality(converted) = 2
    /\ \A p \in converted : p.stem = "a"
    /\ Path(Dl, "a", ".mp4") \in DOMAIN fs0
    /\ {Path(Dl, "a_converted", ".mp4"), Path(Dl, "a_converted_1", ".mp4")} \subseteq DOMAIN fs
    /\ \A p \in DOMAIN fs0 \cap DOMAIN fs : fs[p] = fs0[p]

-----------------------------------------------------------------------------
(* Properties of convert_to_mp4_in_place. *)

\* the file the last converter call was given, as the file system names it
Source == _normalize_path(cv.input)

\* every file that was there before the last converter call is there after
\* it, with the content it had
NothingLost == \A p \in DOMAIN cv.before : p \in DOMAIN cv.res.fs /\ cv.res.fs[p] = cv.before[p]

\* C5: a call that launches the tool reports success only if the tool exited
\* with status 0 and left a non-empty output.  After a non-zero status (with
\* or without a partial output), a zero status with no output and a zero
\* status with an empty output, the call returns None, no file is at the
\* output path and the original is there with its content.
C5_SuccessNeedsGoodOutput ==
    ConvChose =>
        /\ (cv.res.exc = "none" /\ cv.res.ret # None) =>
              /\ cv.env.run = "zero_ok"
              /\ cv.res.ret = cv.res.out
              /\ cv.res.out \in DOMAIN cv.res.fs
              /\ Size(cv.res.fs[cv.res.out]) > 0
        /\ cv.env.run \in {"nonzero_none", "nonzero_partial", "zero_missing", "zero_empty"} =>
              /\ cv.res.exc = "none"
              /\ cv.res.ret = None
              /\ cv.res.out \notin DOMAIN cv.res.fs
              /\ Source \in DOMAIN cv.res.fs
              /\ cv.res.fs[Source] = cv.before[Source]

\* a conversion whose tool exited with status 0 and left an empty output
C5_Witness ==
    /\ ConvChose
    /\ cv.env.run = "zero_empty"
    /\ cv.res.ret = None
    /\ cv.res.out \notin DOMAIN fs

\* C6: after a good run of the tool the original is removed and the output
\* path returned; if the removal fails the output path is still returned, the
\* failure is logged and both files are there.  On no path where the call
\* returns None or raises is any file that was there before removed or changed.
C6_OriginalDeletedOnlyOnSuccess ==
    cv.called =>
        /\ (ConvChose /\ cv.env.run = "zero_ok" /\ cv.env.del = "ok") =>
              /\ cv.res.exc = "none"
              /\ cv.res.ret = cv.res.out
              /\ Source \notin DOMAIN cv.res.fs
              /\ cv.res.out \in DOMAIN cv.res.fs
        /\ (ConvChose /\ cv.env.run = "zero_ok" /\ cv.env.del = "oserror") =>
              /\ cv.res.exc = "none"
              /\ cv.res.ret = cv.res.out
              /\ "could_not_delete" \in cv.res.logs
              /\ Source \in DOMAIN cv.res.fs
              /\ cv.res.out \in DOMAIN cv.res.fs
        /\ cv.res.ret = None => NothingLost

\* a conversion that succeeded although the original could not be removed
C6_Witness ==
    /\ ConvChose
    /\ cv.env.del = "oserror"
    /\ cv.res.ret = cv.res.out
    /\ {Source, cv.res.out} \subseteq DOMAIN fs

\* the last converter call was given an existing file with the extension
\* .mp4 in some letter case
Mp4Input == cv.called /\ Source \in DOMAIN cv.before /\ cv.input.ext \in {".mp4", ".MP4"}

\* C7 as stated: for an existing .mp4 input the call returns that same path,
\* does not launch the tool and changes no file.
C7_AsStated ==
    Mp4Input =>
        /\ cv.res.exc = "none"
        /\ cv.res.ret = cv.input
        /\ ~cv.res.ran
        /\ cv.res.fs = cv.before

\* C7, amended: for an existing .mp4 input (any letter case) and a reachable
\* tool the call returns the absolute form of that path, which is that same
\* path if it is absolute already, as every path the converter returns is;
\* with the tool unreachable it raises the tool-unavailable error.  In both
\* cases the tool is not launched and no file is created, deleted or renamed.
C7_Mp4InputIsNoOp ==
    /\ Mp4Input =>
          /\ ~cv.res.ran
          /\ cv.res.fs = cv.before
          /\ IF cv.onPath
             THEN /\ cv.res.exc = "none"
                  /\ cv.res.ret.stem = cv.input.stem
                  /\ cv.res.ret.ext = cv.input.ext
                  /\ cv.res.ret.dir \in Dirs
                  /\ cv.res.ret \in DOMAIN cv.before
                  /\ cv.input.dir \in Dirs => cv.res.ret = cv.input
             ELSE cv.res.exc = "FileNotFoundError" /\ cv.res.ret = None
    /\ (cv.called /\ cv.res.ret # None) => cv.res.ret.dir \in Dirs

\* an existing absolute .MP4 input handed to the converter with the tool
\* reachable
C7_Witness ==
    /\ Mp4Input
    /\ cv.onPath
    /\ cv.input.ext = ".MP4"
    /\ cv.input.dir \in Dirs
    /\ cv.res.ret = cv.input

-----------------------------------------------------------------------------
(* Properties of run_bulk_conversion. *)

BulkReturned == pc = "returned" /\ ret.fn = "run_bulk_conversion"

\* C8 as stated: run_bulk_conversion returns 0 if and only if at least one
\* candidate was converted during the sweep, interrupted or not, and returns 2
\* in every other case.
C8_AsStated ==
    BulkReturned =>
        /\ ret.kind = "code"
        /\ ret.code \in {BULK_OK, BULK_FAIL}
        /\ (ret.code = BULK_OK) = (converted # {})

\* C9: with the tool unreachable, convert_to_mp4_in_place raises the
\* tool-unavailable error before it looks at, creates or deletes any file;
\* run_bulk_conversion over a non-empty candidate set returns the failure code
\* after one reachability check, with no converter call and no file changed,
\* and the loop is entered only if the tool was reachable at that check.
C9_ToolUnavailableTouchesNothing ==
    /\ (cv.called /\ ~cv.onPath) =>
          /\ cv.res.exc = "FileNotFoundError"
          /\ cv.res.ret = None
          /\ ~cv.res.touched
          /\ ~cv.res.ran
          /\ cv.res.out = None
          /\ cv.res.fs = cv.before
    /\ (BulkReturned /\ loc.files # <<>> /\ ~loc.tool_at_start) =>
          /\ ret.kind = "code"
          /\ ret.code = BULK_FAIL
          /\ probes = 1
          /\ toolRuns = 0
          /\ ~cv.called
          /\ converted = {}
          /\ fs = fs0
    /\ pc = "bulk_loop" => loc.tool_at_start

\* a sweep over two or more candidates that found the tool unreachable
C9_Witness ==
    /\ BulkReturned
    /\ Len(loc.files) >= 2
    /\ ~loc.tool_at_start
    /\ ret.code = BULK_FAIL
    /\ probes = 1

\* the files under the target of the sweep in progress that have one of the
\* two convertible extensions, in any letter case, when the sweep started
CandidatesAtStart ==
    LET t == IF args.path.dir = "downloads" THEN [args.path EXCEPT !.dir = "/cwd/downloads"]
             ELSE args.path
        under == IF t.dir = "/cwd/downloads" THEN {"/cwd/downloads", "/cwd/downloads/sub"}
                 ELSE {t.dir}
        media == {".webm", ".mkv", ".WEBM", ".MKV"}
    IN  IF t \in DOMAIN fs0
        THEN {p \in {t} : p.ext \in media}
        ELSE IF t.stem = "" /\ t.ext = ""
        THEN {p \in DOMAIN fs0 : p.dir \in under /\ p.ext \in media}
        ELSE {}

\* C10: a sweep over a path with no candidate reports that there is nothing
\* to do and returns the failure code without a reachability check, without a
\* launch of the tool and without a change to any file.
C10_EmptySweepDoesNothing ==
    (args.fn = "run_bulk_conversion" /\ CandidatesAtStart = {}) =>
        /\ BulkReturned
        /\ ret.kind = "code"
        /\ ret.code = BULK_FAIL
        /\ "no_files" \in logs
        /\ probes = 0
        /\ toolRuns = 0
        /\ ~cv.called
        /\ fs = fs0

\* a sweep over a directory that holds files, none of them a candidate
C10_Witness ==
    /\ BulkReturned
    /\ args.path = Path(DEFAULT_OUTPUT_DIR, "", "")
    /\ Cardinality(DOMAIN fs0) >= 2
    /\ CandidatesAtStart = {}
    /\ ret.code = BULK_FAIL
    /\ probes = 0

-----------------------------------------------------------------------------
(* Interruption of the sweep. *)

\* the sweep in progress was interrupted
Interrupted == "interrupted" \in logs

\* the interruption came while the tool ran for the candidate at loc.idx
InRun == cv.called /\ cv.res.exc = "KeyboardInterrupt"

\* the number of candidates handed to the converter when the sweep was
\* interrupted
Handed == loc.idx - 1 + (IF InRun THEN 1 ELSE 0)

\* what an interrupted sweep leaves, but for the originals of the converted
\* candidates: it is over and returned the code of the partial tally, the
\* converter was called for the candidates up to the interruption only, the
\* output of every conversion that succeeded is in place, the candidates not
\* yet processed and every other file are as they were
InterruptedSweep ==
    /\ BulkReturned
    /\ ret.kind = "code"
    /\ loc.success_count = Cardinality(loc.outputs)
    /\ ret.code = (IF loc.outputs # {} THEN BULK_OK ELSE BULK_FAIL)
    /\ probes = 1 + Handed
    /\ \A m \in loc.outputs : m.out \in DOMAIN fs /\ fs[m.out] = "mp4out"
    /\ \A i \in (Handed + 1)..Len(loc.files) :
          /\ loc.files[i] \in DOMAIN fs
          /\ fs[loc.files[i]] = fs0[loc.files[i]]
    /\ \A p \in DOMAIN fs0 :
          p \notin converted => p \in DOMAIN fs /\ fs[p] = fs0[p]

\* C11 as stated: a user interruption at any point of the sweep loop stops
\* processing at once: no later candidate is handed to the converter, the
\* candidates converted before it stay converted (original gone, output
\* present), the candidates not yet processed are untouched, nothing is rolled
\* back, and the function returns the code of the partial tally.
C11_AsStated ==
    Interrupted =>
        /\ InterruptedSweep
        /\ \A m \in loc.outputs : m.file \notin DOMAIN fs

\* C11, amended: as above, except that the original of a converted candidate
\* is gone only if its removal went through; an original the converter could
\* not remove is still there, as it was before the interruption.
C11_InterruptionKeepsPartialWork ==
    Interrupted =>
        /\ InterruptedSweep
        /\ \A m \in loc.outputs : (m.file \notin DOMAIN fs) = m.deleted

\* a sweep over three candidates interrupted while the tool ran for the
\* second, after the first was converted
C11_Witness ==
    /\ Interrupted
    /\ BulkReturned
    /\ InRun
    /\ Len(loc.files) = 3
    /\ Handed = 2
    /\ Cardinality(loc.outputs) = 1
    /\ ret.code = BULK_OK

-----------------------------------------------------------------------------
(* Failures of the extraction step. *)

\* the extraction step of the download in progress failed
FetchFailed == logs \cap {"ytdlp_missing", "download_failed"} # {}

\* C12: if the extraction step of perform_download fails in any way
\* (extraction tool missing, tool-level error, unexpected exception), the call
\* returns the download-error code 2 and no later step runs: the transcoding
\* tool is neither probed nor launched, the Media Converter is not called and
\* no file is deleted or changed; a later step runs only after a fetch that
\* succeeded.
C12_FetchFailureEndsCall ==
    /\ (args.fn = "perform_download" /\ FetchFailed) =>
          /\ PdReturned
          /\ ret.kind = "code"
          /\ ret.code = EXIT_DOWNLOAD_ERROR
          /\ hist = <<"Planning", "Fetching", "Failed">>
          /\ probes = 0
          /\ toolRuns = 0
          /\ ~cv.called
          /\ loc.downloaded = None
          /\ fs = fs0
    /\ (args.fn = "perform_download" /\ (probes > 0 \/ cv.called \/ pc = "pd_normalizing")) =>
          /\ ~FetchFailed
          /\ loc.downloaded # None
          /\ "Normalizing" \in {hist[i] : i \in DOMAIN hist}

\* a video download whose extraction failed with a tool-level error while
\* convertible files and the transcoding tool were there
C12_Witness ==
    /\ PdReturned
    /\ "download_failed" \in logs
    /\ args.mode = "video"
    /\ ret.code = EXIT_DOWNLOAD_ERROR
    /\ ffmpegOnPath
    /\ Path(Dl, "a", ".webm") \in DOMAIN fs

-----------------------------------------------------------------------------
(* The audio branch of perform_download. *)

\* the download in progress got past the extraction step
Fetched == "Normalizing" \in {hist[i] : i \in DOMAIN hist}

\* the mode the download in progress was planned for
PlannedMode == Lower(args.mode)

\* what the claim says of a returned download planned as mode m: in audio
\* mode the downloaded file went to the mp3 transcode and to nothing else,
\* code 0 comes with the sibling .mp3 as the final artifact and a failure of
\* the transcode or an unreachable tool with code 3; in either mode code 0
\* needs planning and fetching to have succeeded
AudioContract(m) ==
    /\ (m = "audio" /\ Fetched) =>
          /\ ~cv.called
          /\ probes = 1
          /\ ret.code \in {EXIT_OK, EXIT_FFMPEG_ERROR}
          /\ (ret.code = EXIT_OK) =
                ("saved_audio" \in logs /\ toolRuns = 1
                 /\ loc.final = with_suffix(loc.downloaded, ".mp3"))
          /\ (ret.code = EXIT_FFMPEG_ERROR) =
                (logs \cap {"ffmpeg_missing", "ffmpeg_error"} # {})
    /\ ret.code = EXIT_OK =>
          /\ m \in {"audio", "video"}
          /\ loc.format_str # ""
          /\ Fetched
          /\ ~FetchFailed

-----------------------------------------------------------------------------
(* Strings the program takes apart are sequences of characters; Str makes  *)
(* the string of one.                                                      *)

RECURSIVE Str(_)
Str(cs) == IF cs = <<>> THEN "" ELSE Head(cs) \o Str(Tail(cs))

UpperCase ==
    <<"A", "C", "D", "E", "I", "M", "N", "O", "R", "T", "U", "V", "X", "H", "P", "Q">>

LowerCase ==
    <<"a", "c", "d", "e", "i", "m", "n", "o", "r", "t", "u", "v", "x", "h", "p", "q">>

\* str.lower(), character by character
lower(cs) ==
    [i \in DOMAIN cs |->
        IF \E k \in DOMAIN UpperCase : UpperCase[k] = cs[i]
        THEN LowerCase[CHOOSE k \in DOMAIN UpperCase : UpperCase[k] = cs[i]]
        ELSE cs[i]]

Whitespace == {" "}

RECURSIVE lstrip(_)
lstrip(cs) == IF cs # <<>> /\ Head(cs) \in Whitespace THEN lstrip(Tail(cs)) ELSE cs

RECURSIVE rstrip(_)
rstrip(cs) ==
    IF cs # <<>> /\ cs[Len(cs)] \in Whitespace THEN rstrip(SubSeq(cs, 1, Len(cs) - 1))
    ELSE cs

\* str.strip()
strip(cs) == rstrip(lstrip(cs))

\* str.startswith(prefix)
startswith(cs, prefix) ==
    Len(cs) >= Len(prefix) /\ SubSeq(cs, 1, Len(prefix)) = prefix

Digits == <<"0", "1", "2", "3", "4", "5", "6", "7", "8", "9">>

IsDigit(c) == \E k \in DOMAIN Digits : Digits[k] = c

DigitValue(c) == (CHOOSE k \in DOMAIN Digits : Digits[k] = c) - 1

RECURSIVE Decimal(_)
Decimal(ds) ==
    IF ds = <<>> THEN 0
    ELSE 10 * Decimal(SubSeq(ds, 1, Len(ds) - 1)) + DigitValue(ds[Len(ds)])

\* int(s): white space around the numeral is dropped, one sign may lead, the
\* rest must be decimal digits; anything else raises ValueError
int(cs) ==
    LET t == strip(cs)
        signed == t # <<>> /\ t[1] \in {"+", "-"}
        ds == IF signed THEN Tail(t) ELSE t
    IN  IF ds = <<>> \/ \E i \in DOMAIN ds : ~IsDigit(ds[i])
        THEN [exc |-> "ValueError", value |-> 0]
        ELSE [exc |-> "none",
              value |-> IF signed /\ t[1] = "-" THEN 0 - Decimal(ds) ELSE Decimal(ds)]

\* the position of the last c in cs, 0 if there is none
LastIndex(cs, c) ==
    IF \E i \in DOMAIN cs : cs[i] = c
    THEN CHOOSE i \in DOMAIN cs : cs[i] = c /\ \A j \in (i + 1)..Len(cs) : cs[j] # c
    ELSE 0

\* pathlib.Path(s): a string that names a directory of the model is that
\* directory; any other is split into parent directory, stem and suffix
PathOf(cs) ==
    LET whole == Str(cs)
        slash == LastIndex(cs, "/")
        name == SubSeq(cs, slash + 1, Len(cs))
        dot == LastIndex(name, ".")
    IN  IF _normalize_path(Path(whole, "", "")).dir \in Dirs
        THEN Path(whole, "", "")
        ELSE Path(Str(SubSeq(cs, 1, slash - 1)),
                  IF dot > 1 THEN Str(SubSeq(name, 1, dot - 1)) ELSE Str(name),
                  IF dot > 1 THEN Str(SubSeq(name, dot, Len(name))) ELSE "")

-----------------------------------------------------------------------------
(* cli/parser.py *)

\* the characters of the words the program compares its input with
Chars_audio == <<"a", "u", "d", "i", "o">>

Chars_video == <<"v", "i", "d", "e", "o">>

Chars_convert == <<"c", "o", "n", "v", "e", "r", "t">>

Chars_max == <<"m", "a", "x">>

Chars_http == <<"h", "t", "t", "p">>

Chars_menu == <<"m", "e", "n", "u">>

\* parser.py lines 14-18
_validate_mode(raw_mode) ==
    LET mode == lower(raw_mode)
    IN  IF mode \notin {Chars_audio, Chars_video, Chars_convert}
        THEN [exc |-> "ValueError", value |-> ""]
        ELSE [exc |-> "none", value |-> Str(mode)]

\* _validate_quality that takes every integer
_validate_quality_AnyInt(raw_quality) ==
    IF lower(raw_quality) = Chars_max
    THEN [exc |-> "none", value |-> NoQuality]
    ELSE IF int(raw_quality).exc # "none"
    THEN [exc |-> "ValueError", value |-> NoQuality]
    ELSE [exc |-> "none", value |-> <<int(raw_quality).value>>]

\* parser.py lines 21-30
_validate_quality(raw_quality) ==
    IF lower(raw_quality) = Chars_max
    THEN [exc |-> "none", value |-> NoQuality]
    ELSE IF int(raw_quality).exc # "none"
    THEN [exc |-> "ValueError", value |-> NoQuality]
    ELSE IF int(raw_quality).value <= 0
    THEN [exc |-> "ValueError", value |-> NoQuality]
    ELSE [exc |-> "none", value |-> <<int(raw_quality).value>>]

\* parser.py lines 33-36
_validate_url(url) ==
    IF ~startswith(url, Chars_http)
    THEN [exc |-> "ValueError", value |-> ""]
    ELSE [exc |-> "none", value |-> Str(url)]

\* Path.exists()
path_exists(fsys, p) == is_file(fsys, p) \/ is_dir(p)

Rejected(msg, validated) ==
    ParsedArgs("ValueError", msg, "", NoQuality, "", None, validated)

\* parser.py lines 39-67
parse_args(fsys, argv) ==
    IF argv = <<>> THEN Rejected("usage", {})
    ELSE
    LET mode == _validate_mode(argv[1])
    IN  IF mode.exc # "none" THEN Rejected("mode", {"mode"})
        ELSE IF mode.value = "convert"
        THEN IF Len(argv) # 2 THEN Rejected("usage_convert", {"mode"})
             ELSE LET normalized_path == _normalize_path(PathOf(argv[2]))
                  IN  IF ~path_exists(fsys, normalized_path)
                      THEN Rejected("path", {"mode", "path"})
                      ELSE ParsedArgs("none", "", mode.value, NoQuality, "",
                                      normalized_path, {"mode", "path"})
        ELSE IF Len(argv) # 3 THEN Rejected("usage_download", {"mode"})
        ELSE LET quality == _validate_quality(argv[2])
                 url == _validate_url(argv[3])
             IN  IF quality.exc # "none" THEN Rejected("quality", {"mode", "quality"})
                 ELSE IF url.exc # "none"
                 THEN Rejected("url", {"mode", "quality", "url"})
                 ELSE ParsedArgs("none", "", mode.value, quality.value, url.value,
                                 None, {"mode", "quality", "url"})

-----------------------------------------------------------------------------
(* main and run_menu.  The process starts at pc = "start" and is over at   *)
(* pc = "main_done", where ret is what main returned or raised.            *)

MaxMenuOps == 2   \* calls of perform_download and run_bulk_conversion the
                  \* menu dispatches in one session
MaxUrls == 2      \* URLs of one bulk download
MaxArgc == 3      \* tokens of an argument list

QUALITY_CHOICES == <<NoQuality, <<360>>, <<480>>, <<720>>, <<1080>>, <<1440>>, <<2160>>>>

\* the tokens argument lists are made of
ArgTokens ==
    {Chars_video, <<"A", "U", "D", "I", "O">>, Chars_convert,
     <<"C", "O", "N", "V", "E", "R", "T">>, Chars_menu,
     Chars_max, <<"7", "2", "0">>, <<"0">>,
     <<"h", "t", "t", "p", ":", "/", "/", "u">>,
     <<"d", "o", "w", "n", "l", "o", "a", "d", "s">>,
     <<"d", "o", "w", "n", "l", "o", "a", "d", "s", "/", "a", ".", "w", "e", "b", "m">>}

Argvs == UNION {[1..n -> ArgTokens] : n \in 0..MaxArgc}

\* the files that may be there when the process starts
MainFiles == {Path(Dl, "a", ".webm")}

\* the variables of the frame of the call in progress
Frame == <<args, loc, ret, cv, probes, toolRuns, fs0, logs, hist, converted>>

NoFrame ==
    /\ args' = NoArgs
    /\ loc' = NoLoc
    /\ ret' = NoRet
    /\ cv' = NoCv
    /\ probes' = 0
    /\ toolRuns' = 0
    /\ fs0' = fs
    /\ logs' = {}
    /\ hist' = <<>>
    /\ converted' = {}

InitMain ==
    /\ \E S \in SUBSET MainFiles : fs = [p \in S |-> "orig"]
    /\ ffmpegOnPath \in BOOLEAN
    /\ pc = "start"
    /\ args = NoArgs
    /\ loc = NoLoc
    /\ ret = NoRet
    /\ cv = NoCv
    /\ probes = 0
    /\ toolRuns = 0
    /\ fs0 = fs
    /\ logs = {}
    /\ hist = <<>>
    /\ converted = {}
    /\ opsDone = 0
    /\ top = NoTop

\* the modes and qualities build_format_string is called with directly
FormatModes == {"audio", "video", "AUDIO", "VIDEO", "convert", ""}

FormatQualities == {QUALITY_CHOICES[i] : i \in DOMAIN QUALITY_CHOICES} \cup {<<5>>}

\* a call of build_format_string from outside the program
FormatCall ==
    /\ pc = "start"
    /\ \E mode \in FormatModes, quality \in FormatQualities :
          LET f == build_format_string(mode, quality)
          IN  /\ args' = [NoArgs EXCEPT !.fn = "build_format_string", !.mode = mode,
                                        !.quality = quality]
              /\ loc' = [NoLoc EXCEPT !.format_str = f.value]
              /\ ret' = IF f.exc # "none" THEN Raise("build_format_string", f.exc)
                        ELSE [NoRet EXCEPT !.fn = "build_format_string", !.kind = "value"]
    /\ pc' = "returned"
    /\ UNCHANGED <<fs, ffmpegOnPath, opsDone, top>>
    /\ UNCHANGED <<cv, probes, toolRuns, fs0, logs, hist, converted>>

\* a call of parse_args from outside the program
ParseCall ==
    /\ pc = "start"
    /\ \E argv \in Argvs :
          LET parsed == parse_args(fs, argv)
          IN  /\ top' = [NoTop EXCEPT !.fn = "parse_args", !.argv = argv,
                                      !.parsed = parsed]
              /\ ret' = IF parsed.exc # "none" THEN Raise("parse_args", parsed.exc)
                        ELSE [NoRet EXCEPT !.fn = "parse_args", !.kind = "value"]
    /\ pc' = "returned"
    /\ UNCHANGED <<fs, ffmpegOnPath, opsDone>>
    /\ UNCHANGED <<args, loc, cv, probes, toolRuns, fs0, logs, hist, converted>>

\* a call of perform_download from outside the program, as the first thing
\* the process does
DirectDownload ==
    /\ pc = "start"
    /\ \E mode \in PdModes, quality \in PdQualities, url \in PdUrls :
          PdBegin(mode, quality, url)
    /\ UNCHANGED <<opsDone, top>>

\* main.py line 138
WantsMenu(argv) == Len(argv) = 0 \/ (Len(argv) = 1 /\ lower(argv[1]) = Chars_menu)

\* main.py lines 138-139 and 162-176: no arguments or "menu": run_menu starts
MainMenu ==
    /\ pc = "start"
    /\ \E argv \in Argvs :
          /\ WantsMenu(argv)
          /\ top' = [NoTop EXCEPT !.fn = "main", !.argv = argv, !.menu = TRUE,
                                  !.mode = "video", !.quality = NoQuality,
                                  !.sink = TRUE, !.status_message = "Ready"]
    /\ pc' = "menu_prompt"
    /\ UNCHANGED <<fs, ffmpegOnPath, opsDone>>
    /\ UNCHANGED Frame

\* main.py lines 141-145: parse_args rejects the argument list
MainRejected ==
    /\ pc = "start"
    /\ \E argv \in Argvs :
          LET parsed == parse_args(fs, argv)
          IN  /\ ~WantsMenu(argv)
              /\ parsed.exc # "none"
              /\ top' = [NoTop EXCEPT !.fn = "main", !.argv = argv, !.parsed = parsed]
    /\ ret' = ReturnCodeOf("main", EXIT_USER_ERROR)
    /\ logs' = {"parse_error"}
    /\ pc' = "main_done"
    /\ UNCHANGED <<fs, ffmpegOnPath, opsDone>>
    /\ UNCHANGED <<args, loc, cv, probes, toolRuns, fs0, hist, converted>>

\* main.py lines 147-151: one-shot conversion
MainConvert ==
    /\ pc = "start"
    /\ \E argv \in Argvs :
          LET parsed == parse_args(fs, argv)
          IN  /\ ~WantsMenu(argv)
              /\ parsed.exc = "none"
              /\ parsed.mode = "convert"
              /\ top' = [NoTop EXCEPT !.fn = "main", !.argv = argv, !.parsed = parsed]
              /\ BulkBegin(parsed.path)
    /\ UNCHANGED opsDone

\* main.py lines 153-157: one-shot download
MainDownload ==
    /\ pc = "start"
    /\ \E argv \in Argvs :
          LET parsed == parse_args(fs, argv)
          IN  /\ ~WantsMenu(argv)
              /\ parsed.exc = "none"
              /\ parsed.mode # "convert"
              /\ top' = [NoTop EXCEPT !.fn = "main", !.argv = argv, !.parsed = parsed]
              /\ PdBegin(parsed.mode, parsed.quality, parsed.url)
    /\ UNCHANGED opsDone

\* main.py lines 151 and 157: main returns what the call returned, and an
\* exception of the call leaves main
MainExit ==
    /\ pc = "returned"
    /\ top.fn = "main"
    /\ ~top.menu
    /\ pc' = "main_done"
    /\ ret' = [ret EXCEPT !.fn = "main"]
    /\ UNCHANGED <<fs, ffmpegOnPath, opsDone, top>>
    /\ UNCHANGED <<args, loc, cv, probes, toolRuns, fs0, logs, hist, converted>>

-----------------------------------------------------------------------------
(* run_menu: one action per option of the loop of main.py lines 213-304.   *)

\* what the user may type at the prompt of the menu
MenuInputs ==
    {<<"1">>, <<"2">>, <<"3">>, <<"4">>, <<" ", "5", " ">>, <<"6">>, <<"7">>, <<>>}

\* what the user may type when asked for a mode
ModeSelections == {<<"1">>, <<" ", "2">>, <<"3">>, <<>>}

\* what the user may type when asked for a quality
QualitySelections ==
    {<<"1">>, <<" ", "4">>, <<"7">>, <<"8">>, <<"0">>, <<"-", "1">>, <<"x">>, <<>>}

\* what the clipboard may hold (<<>>: nothing) and what the user may type
\* when asked for a URL
Clips == {<<>>, <<"h", "t", "t", "p", ":", "/", "/", "u">>}

TypedUrls == {<<>>, <<"x">>, <<" ", "h", "t", "t", "p", ":", "/", "/", "u">>}

\* the URLs a bulk download is made of, each different
BulkUrls == <<"http://u", "http://v", "http://w">>

\* the lists prompt_bulk_urls may return: validated URLs
UrlLists == {SubSeq(BulkUrls, 1, n) : n \in 0..MaxUrls}

\* what the user may type when asked for a path to convert
TypedPaths ==
    {<<>>, <<"x">>, <<"d", "o", "w", "n", "l", "o", "a", "d", "s">>,
     <<" ", "d", "o", "w", "n", "l", "o", "a", "d", "s", "/", "a", ".", "w", "e", "b", "m">>}

\* main.py lines 309-322; "" is None
prompt_for_url(clip, typed) ==
    LET entered == strip(typed)
        url == IF entered = <<>> /\ clip # <<>> THEN clip ELSE entered
    IN  IF url = <<>> THEN ""
        ELSE IF _validate_url(url).exc # "none" THEN ""
        ELSE _validate_url(url).value

\* main.py lines 418-427; "" is None
prompt_mode(typed) ==
    LET choice == strip(typed)
    IN  IF choice = <<"1">> THEN "audio"
        ELSE IF choice = <<"2">> THEN "video"
        ELSE ""

\* prompt_quality that answers an invalid selection with None
prompt_quality_NoneForInvalid(typed) ==
    LET choice == strip(typed)
        choice_int == int(choice)
    IN  IF choice_int.exc # "none"
        THEN [sentinel |-> FALSE, value |-> NoQuality]
        ELSE IF ~(1 <= choice_int.value /\ choice_int.value <= Len(QUALITY_CHOICES))
        THEN [sentinel |-> FALSE, value |-> NoQuality]
        ELSE [sentinel |-> FALSE, value |-> QUALITY_CHOICES[choice_int.value]]

\* main.py lines 430-444; sentinel: the result is invalid_sentinel
prompt_quality(typed) ==
    LET choice == strip(typed)
        choice_int == int(choice)
    IN  IF choice_int.exc # "none"
        THEN [sentinel |-> TRUE, value |-> NoQuality]
        ELSE IF ~(1 <= choice_int.value /\ choice_int.value <= Len(QUALITY_CHOICES))
        THEN [sentinel |-> TRUE, value |-> NoQuality]
        ELSE [sentinel |-> FALSE, value |-> QUALITY_CHOICES[choice_int.value]]

\* the option read at the prompt is c
Chose(c) ==
    /\ pc = "menu_prompt"
    /\ \E raw \in MenuInputs : strip(raw) = c

\* the loop goes round without a call: only the option and the selection read
\* are new
Continue(choice) ==
    /\ top' = [top EXCEPT !.choice = choice, !.typed = <<>>, !.selected = "",
                          !.selected_quality = NoSelection]
    /\ UNCHANGED <<fs, ffmpegOnPath, pc, opsDone>>
    /\ UNCHANGED Frame

\* main.py line 262: the status of download idx of n
DownloadingOf(idx, n) == "Downloading " \o ToString(idx) \o "/" \o ToString(n) \o "..."

\* MenuDownload that sets the status before it asks for the URL
MenuDownload_StatusBeforePrompt ==
    /\ Chose(<<"1">>)
    /\ \E clip \in Clips, typed \in TypedUrls :
          LET url == prompt_for_url(clip, typed)
          IN  IF url = ""
              THEN /\ top' = [top EXCEPT !.choice = "1", !.typed = <<>>, !.selected = "",
                                     !.selected_quality = NoSelection,
                                     !.status_message = "Downloading...",
                                     !.status_progress = <<0, 1>>]
                   /\ UNCHANGED <<fs, ffmpegOnPath, pc, opsDone>>
                   /\ UNCHANGED Frame
              ELSE /\ top.ops < MaxMenuOps
                   /\ top' = [top EXCEPT !.choice = "1", !.typed = <<>>, !.selected = "",
                                     !.selected_quality = NoSelection,
                                     !.status_message = "Downloading...",
                                     !.status_progress = <<0, 1>>, !.ops = @ + 1]
                   /\ PdBegin(top.mode, top.quality, url)
                   /\ UNCHANGED opsDone

\* main.py lines 239-253: option 1, up to the call of perform_download
MenuDownload ==
    /\ Chose(<<"1">>)
    /\ \E clip \in Clips, typed \in TypedUrls :
          LET url == prompt_for_url(clip, typed)
          IN  IF url = ""
              THEN Continue("1")
              ELSE /\ top.ops < MaxMenuOps
                   /\ top' = [top EXCEPT !.choice = "1", !.typed = <<>>, !.selected = "",
                                     !.selected_quality = NoSelection,
                                     !.status_message = "Downloading...",
                                     !.status_progress = <<0, 1>>, !.ops = @ + 1]
                   /\ PdBegin(top.mode, top.quality, url)
                   /\ UNCHANGED opsDone

\* main.py lines 254-270: option 2, up to the first call of perform_download
MenuBulkDownload ==
    /\ Chose(<<"2">>)
    /\ \E urls \in UrlLists :
          IF urls = <<>>
          THEN Continue("2")
          ELSE /\ top.ops + Len(urls) <= MaxMenuOps
               /\ top' = [top EXCEPT !.choice = "2", !.typed = <<>>, !.selected = "",
                                     !.selected_quality = NoSelection, !.urls = urls,
                                     !.idx = 1,
                                     !.status_message = DownloadingOf(1, Len(urls)),
                                     !.status_progress = <<1, Len(urls)>>,
                                     !.ops = @ + Len(urls)]
               /\ PdBegin(top.mode, top.quality, urls[1])
               /\ UNCHANGED opsDone

\* main.py lines 271-288: option 3, up to the call of run_bulk_conversion
MenuConvert ==
    /\ Chose(<<"3">>)
    /\ \E typed \in TypedPaths :
          LET target == strip(typed)
          IN  IF target = <<>> \/ ~path_exists(fs, _normalize_path(PathOf(target)))
              THEN Continue("3")
              ELSE /\ top.ops < MaxMenuOps
                   /\ top' = [top EXCEPT !.choice = "3", !.typed = <<>>, !.selected = "",
                                     !.selected_quality = NoSelection,
                                     !.status_message = "Converting...",
                                     !.status_progress = <<0, 1>>, !.ops = @ + 1]
                   /\ BulkBegin(PathOf(target))
                   /\ UNCHANGED opsDone

\* MenuResume that downloads the URLs after the first with the settings the
\* menu starts with
MenuResume_DefaultsForNextUrl ==
    /\ pc = "returned"
    /\ top.menu
    /\ IF ret.kind = "raise"
       THEN /\ pc' = "main_done"
            /\ ret' = Raise("main", ret.exc)
            /\ top' = [top EXCEPT !.sink = FALSE]
            /\ UNCHANGED <<fs, ffmpegOnPath, opsDone>>
            /\ UNCHANGED <<args, loc, cv, probes, toolRuns, fs0, logs, hist, converted>>
       ELSE IF top.idx < Len(top.urls)
       THEN /\ top' = [top EXCEPT !.idx = @ + 1,
                                 !.status_message = DownloadingOf(top.idx + 1, Len(top.urls)),
                                 !.status_progress = <<top.idx + 1, Len(top.urls)>>]
            /\ PdBegin("video", NoQuality, top.urls[top.idx + 1])
            /\ UNCHANGED opsDone
       ELSE /\ pc' = "menu_prompt"
            /\ top' = [top EXCEPT !.urls = <<>>, !.idx = 0, !.status_message = "Ready",
                                 !.status_progress = NoProgress]
            /\ NoFrame
            /\ UNCHANGED <<fs, ffmpegOnPath, opsDone>>

\* MenuResume that gives up a bulk download at the first download that fails
MenuResume_StopsAtFailure ==
    /\ pc = "returned"
    /\ top.menu
    /\ IF ret.kind = "raise"
       THEN /\ pc' = "main_done"
            /\ ret' = Raise("main", ret.exc)
            /\ top' = [top EXCEPT !.sink = FALSE]
            /\ UNCHANGED <<fs, ffmpegOnPath, opsDone>>
            /\ UNCHANGED <<args, loc, cv, probes, toolRuns, fs0, logs, hist, converted>>
       ELSE IF top.idx < Len(top.urls) /\ ret.code = EXIT_OK
       THEN /\ top' = [top EXCEPT !.idx = @ + 1,
                                 !.status_message = DownloadingOf(top.idx + 1, Len(top.urls)),
                                 !.status_progress = <<top.idx + 1, Len(top.urls)>>]
            /\ PdBegin(top.mode, top.quality, top.urls[top.idx + 1])
            /\ UNCHANGED opsDone
       ELSE /\ pc' = "menu_prompt"
            /\ top' = [top EXCEPT !.urls = <<>>, !.idx = 0, !.status_message = "Ready",
                                 !.status_progress = NoProgress]
            /\ NoFrame
            /\ UNCHANGED <<fs, ffmpegOnPath, opsDone>>

\* main.py lines 246-253, 264-270, 281-288 and 305-306: the call the menu
\* made is over
MenuResume ==
    /\ pc = "returned"
    /\ top.menu
    /\ IF ret.kind = "raise"
       THEN /\ pc' = "main_done"
            /\ ret' = Raise("main", ret.exc)
            /\ top' = [top EXCEPT !.sink = FALSE]
            /\ UNCHANGED <<fs, ffmpegOnPath, opsDone>>
            /\ UNCHANGED <<args, loc, cv, probes, toolRuns, fs0, logs, hist, converted>>
       ELSE IF top.idx < Len(top.urls)
       THEN /\ top' = [top EXCEPT !.idx = @ + 1,
                                 !.status_message = DownloadingOf(top.idx + 1, Len(top.urls)),
                                 !.status_progress = <<top.idx + 1, Len(top.urls)>>]
            /\ PdBegin(top.mode, top.quality, top.urls[top.idx + 1])
            /\ UNCHANGED opsDone
       ELSE /\ pc' = "menu_prompt"
            /\ top' = [top EXCEPT !.urls = <<>>, !.idx = 0, !.status_message = "Ready",
                                 !.status_progress = NoProgress]
            /\ NoFrame
            /\ UNCHANGED <<fs, ffmpegOnPath, opsDone>>

\* main.py lines 289-293: option 4
MenuChangeMode ==
    /\ Chose(<<"4">>)
    /\ \E typed \in ModeSelections :
          LET selected == prompt_mode(typed)
          IN  top' = [top EXCEPT !.choice = "4", !.typed = typed,
                                 !.selected = selected,
                                 !.selected_quality = NoSelection,
                                 !.mode = IF selected # "" THEN selected ELSE @]
    /\ UNCHANGED <<fs, ffmpegOnPath, pc, opsDone>>
    /\ UNCHANGED Frame

\* main.py lines 294-298: option 5
MenuChangeQuality ==
    /\ Chose(<<"5">>)
    /\ \E typed \in QualitySelections :
          LET selected_quality == prompt_quality(typed)
          IN  top' = [top EXCEPT !.choice = "5", !.typed = typed, !.selected = "",
                                 !.selected_quality = selected_quality,
                                 !.quality = IF ~selected_quality.sentinel
                                             THEN selected_quality.value ELSE @]
    /\ UNCHANGED <<fs, ffmpegOnPath, pc, opsDone>>
    /\ UNCHANGED Frame

\* main.py lines 299-301 and 305-306: option 6
MenuExit ==
    /\ Chose(<<"6">>)
    /\ top' = [top EXCEPT !.choice = "6", !.typed = <<>>, !.selected = "",
                                     !.selected_quality = NoSelection, !.sink = FALSE]
    /\ ret' = ReturnCodeOf("main", EXIT_OK)
    /\ pc' = "main_done"
    /\ UNCHANGED <<fs, ffmpegOnPath, opsDone>>
    /\ UNCHANGED <<args, loc, cv, probes, toolRuns, fs0, logs, hist, converted>>

\* main.py lines 302-304: any other input
MenuInvalid ==
    /\ pc = "menu_prompt"
    /\ \E raw \in MenuInputs :
          /\ strip(raw) \notin {<<"1">>, <<"2">>, <<"3">>, <<"4">>, <<"5">>, <<"6">>}
          /\ Continue(Str(strip(raw)))

\* a process that runs main once with arguments, or calls parse_args or
\* perform_download directly
NextOneShot ==
    \/ EnvChange
    \/ ParseCall
    \/ DirectDownload
    \/ MainRejected
    \/ MainConvert
    \/ MainDownload
    \/ MainExit
    \/ BulkStep
    \/ BulkInterrupt
    \/ PdFetch
    \/ PdNormalizeAudio
    \/ PdNormalizeVideo

SpecOneShot == InitMain /\ [][NextOneShot]_vars

\* the same with the menu and with direct calls of build_format_string
NextMain ==
    \/ EnvChange
    \/ FormatCall
    \/ ParseCall
    \/ DirectDownload
    \/ MainMenu
    \/ MainRejected
    \/ MainConvert
    \/ MainDownload
    \/ MainExit
    \/ MenuDownload
    \/ MenuBulkDownload
    \/ MenuConvert
    \/ MenuResume
    \/ MenuChangeMode
    \/ MenuChangeQuality
    \/ MenuExit
    \/ MenuInvalid
    \/ BulkStep
    \/ BulkInterrupt
    \/ PdFetch
    \/ PdNormalizeAudio
    \/ PdNormalizeVideo

SpecMain == InitMain /\ [][NextMain]_vars

-----------------------------------------------------------------------------
(* Properties of main with arguments. *)

\* main is over
MainDone == pc = "main_done" /\ top.fn = "main"

\* main was given ["convert", <path>] and parse_args accepted it
ConvertForm ==
    /\ top.fn = "main"
    /\ Len(top.argv) = 2
    /\ lower(top.argv[1]) = Chars_convert
    /\ top.parsed.exc = "none"

\* C14 as stated: for every argument list ["convert", <path>], main returns 0
\* if at least one file was converted and 2 in every other case (nothing
\* found, tool unavailable, every conversion failed), and no other code.
C14_AsStated ==
    (MainDone /\ ConvertForm) =>
        /\ ret.kind = "code"
        /\ ret.code \in {BULK_OK, BULK_FAIL}
        /\ (ret.code = BULK_OK) = (converted # {})

\* the call in progress has not made the output directory, not called the
\* extraction capability, not probed or launched the transcoding tool and
\* not changed a file
NoSideEffect ==
    /\ ~loc.mkdir
    /\ loc.fetches = 0
    /\ probes = 0
    /\ toolRuns = 0
    /\ ~cv.called
    /\ fs = fs0

\* what the claim says of a call of main whose argument list parse_args
\* rejects, and of perform_download with a mode outside {audio, video}
RejectedBeforeSideEffects(handed) ==
    /\ (top.fn = "main" /\ handed /\ parse_args(fs0, top.argv).exc # "none") =>
          /\ MainDone
          /\ top.parsed = parse_args(fs, top.argv)
          /\ ret.kind = "code"
          /\ ret.code = EXIT_USER_ERROR
          /\ "parse_error" \in logs
          /\ args.fn = "none"
          /\ NoSideEffect
    /\ (args.fn = "perform_download" /\ Lower(args.mode) \notin {"audio", "video"}) =>
          /\ PdReturned
          /\ ret.kind = "code"
          /\ ret.code = EXIT_USER_ERROR
          /\ hist = <<"Planning", "Failed">>
          /\ NoSideEffect

\* C15 as stated: for every argument list that parse_args rejects (bad mode,
\* bad quality, bad URL, missing path, wrong token count) main returns the
\* user-error code 1 without having made the output directory, called the
\* extraction capability or probed or launched the transcoding tool; and
\* perform_download with a mode outside {audio, video} returns 1 before it
\* makes the output directory.
C15_AsStated == RejectedBeforeSideEffects(TRUE)

\* C15, amended: the same for every argument list that main hands to
\* parse_args, which is every list but the empty one and the single token
\* "menu" (in any letter case): parse_args rejects these two as well, but main
\* starts the menu for them.
C15_ValidationFailsBeforeSideEffects == RejectedBeforeSideEffects(~WantsMenu(top.argv))

\* main returned 1 for a download whose URL is bad while the tool was there
C15_Witness ==
    /\ MainDone
    /\ top.parsed.msg = "url"
    /\ ret.code = EXIT_USER_ERROR
    /\ ffmpegOnPath
    /\ NoSideEffect

-----------------------------------------------------------------------------
(* C16: the two shapes parse_args accepts.                                  *)

\* a call of parse_args from outside has returned or raised
Parsed == top.fn = "parse_args" /\ pc = "returned"

Accepted == top.parsed.exc = "none"

\* "max" in any letter case, or an integer above 0
QualityToken(cs) == lower(cs) = Chars_max \/ (int(cs).exc = "none" /\ int(cs).value > 0)

\* three tokens: audio or video, a quality, a URL
DownloadShape(argv) ==
    /\ Len(argv) = 3
    /\ lower(argv[1]) \in {Chars_audio, Chars_video}
    /\ QualityToken(argv[2])
    /\ startswith(argv[3], Chars_http)

\* two tokens: convert and a path that is there
ConvertShape(argv) ==
    /\ Len(argv) = 2
    /\ lower(argv[1]) = Chars_convert
    /\ path_exists(fs, _normalize_path(PathOf(argv[2])))

RecognizedMode(argv) == lower(argv[1]) \in {Chars_audio, Chars_video, Chars_convert}

WrongTokenCount(argv) ==
    \/ Len(argv) = 0
    \/ lower(argv[1]) = Chars_convert /\ Len(argv) # 2
    \/ lower(argv[1]) \in {Chars_audio, Chars_video} /\ Len(argv) # 3

\* C16: parse_args accepts exactly two shapes: three tokens with a mode in
\* {audio, video} in any letter case, a quality that is "max" (unbounded) or
\* an integer above 0, and a URL starting with "http", returned unchanged; or
\* two tokens, "convert" and an existing path.  Every other list fails, and a
\* wrong token count or an unrecognized mode is rejected before quality, URL
\* or path are validated.  An accepted result has exactly one of url and path:
\* url for audio and video, path for convert, whose quality is unbounded.
C16_ParseArgsShapes ==
    Parsed =>
      LET argv == top.argv
          parsed == top.parsed
      IN  /\ Accepted <=> (DownloadShape(argv) \/ ConvertShape(argv))
          /\ ~Accepted => /\ parsed.exc = "ValueError"
                          /\ ret.kind = "raise"
          /\ (Accepted /\ DownloadShape(argv)) =>
                /\ parsed.mode = Str(lower(argv[1]))
                /\ parsed.mode \in {"audio", "video"}
                /\ parsed.quality = IF lower(argv[2]) = Chars_max THEN NoQuality
                                    ELSE <<int(argv[2]).value>>
                /\ parsed.url = Str(argv[3])
                /\ parsed.url # ""
                /\ parsed.path = None
          /\ (Accepted /\ ConvertShape(argv)) =>
                /\ parsed.mode = "convert"
                /\ parsed.quality = NoQuality
                /\ parsed.url = ""
                /\ parsed.path # None
                /\ parsed.path = _normalize_path(PathOf(argv[2]))
          /\ (WrongTokenCount(argv) \/ ~RecognizedMode(argv)) =>
                /\ ~Accepted
                /\ parsed.validated \subseteq {"mode"}

\* "AUDIO 720 http://u" was accepted as an audio download bounded by 720
C16_Witness ==
    /\ Parsed
    /\ Accepted
    /\ top.argv[1] = <<"A", "U", "D", "I", "O">>
    /\ top.parsed.mode = "audio"
    /\ top.parsed.quality = <<720>>
    /\ top.parsed.url = "http://u"
    /\ top.parsed.path = None

-----------------------------------------------------------------------------
(* C17: the selector build_format_string plans.                            *)

\* the selector the claim gives for a video bounded by n
BoundedSelector(n) ==
    CASE n = 5 -> "bestvideo[height<=5]+bestaudio/best"
      [] n = 360 -> "bestvideo[height<=360]+bestaudio/best"
      [] n = 480 -> "bestvideo[height<=480]+bestaudio/best"
      [] n = 720 -> "bestvideo[height<=720]+bestaudio/best"
      [] n = 1080 -> "bestvideo[height<=1080]+bestaudio/best"
      [] n = 1440 -> "bestvideo[height<=1440]+bestaudio/best"
      [] n = 2160 -> "bestvideo[height<=2160]+bestaudio/best"

\* the claim's table, for a mode in lower case
Selector(mode_lower, quality) ==
    IF mode_lower = "audio" THEN "bestaudio/best"
    ELSE IF quality = NoQuality THEN "bestvideo+bestaudio/best"
    ELSE BoundedSelector(quality[1])

\* build_format_string was called from outside and is over
FormatReturned == pc = "returned" /\ args.fn = "build_format_string"

\* C17: build_format_string is a pure function of (mode, quality): for audio
\* it returns "bestaudio/best" whatever the quality, for video without a bound
\* "bestvideo+bestaudio/best", for video bounded by N
\* "bestvideo[height<=N]+bestaudio/best", and for a mode outside
\* {audio, video} it fails.  perform_download plans with it, and on no path
\* from main, one-shot or menu, is the mode it is given convert.
C17_FormatStringTable ==
    /\ FormatReturned =>
          /\ IF Lower(args.mode) \in {"audio", "video"}
             THEN /\ ret.kind = "value"
                  /\ loc.format_str = Selector(Lower(args.mode), args.quality)
             ELSE /\ ret.kind = "raise"
                  /\ ret.exc = "ValueError"
          /\ fs = fs0
          /\ probes = 0
          /\ toolRuns = 0
          /\ logs = {}
          /\ ~loc.mkdir
          /\ loc.fetches = 0
    /\ (args.fn = "perform_download" /\ loc.mkdir) =>
          /\ Lower(args.mode) \in {"audio", "video"}
          /\ loc.format_str = Selector(Lower(args.mode), args.quality)
    /\ (top.fn = "main" /\ args.fn = "perform_download") =>
          args.mode \in {"audio", "video"}

\* main dispatched the download "video 720 http://u", planned as bounded by 720
C17_Witness ==
    /\ top.fn = "main"
    /\ ~top.menu
    /\ args.fn = "perform_download"
    /\ args.mode = "video"
    /\ args.quality = <<720>>
    /\ loc.format_str = "bestvideo[height<=720]+bestaudio/best"

-----------------------------------------------------------------------------
(* C18: what ends run_menu.                                                 *)

\* run_menu is over
MenuDone == pc = "main_done" /\ top.fn = "main" /\ top.menu

\* C18: run_menu ends only when the exit option is selected, and then returns
\* the success code; no failure of a dispatched download, bulk download or
\* bulk conversion ends it, and no exception of one reaches the loop.
C18_AsStated ==
    /\ MenuDone =>
          /\ top.choice = "6"
          /\ ret.kind = "code"
          /\ ret.code = EXIT_OK
    /\ (top.menu /\ pc = "returned") => ret.kind # "raise"

-----------------------------------------------------------------------------
(* C19: the change-mode and change-quality actions of run_menu.             *)

\* the mode menu as printed: 1) audio, 2) video; "" for any other selection
ModeEntry(typed) ==
    CASE strip(typed) = <<"1">> -> "audio"
      [] strip(typed) = <<"2">> -> "video"
      [] OTHER -> ""

\* the quality menu as the claim lists it
QualityMenu == <<NoQuality, <<360>>, <<480>>, <<720>>, <<1080>>, <<1440>>, <<2160>>>>

\* the selection is the number of an entry of the quality menu
ValidQualitySelection(typed) ==
    /\ int(strip(typed)).exc = "none"
    /\ int(strip(typed)).value \in DOMAIN QualityMenu

\* the step is the change-mode action
ChangeModeStep == pc = "menu_prompt" /\ top'.choice = "4" /\ top' # top

\* the step is the change-quality action
ChangeQualityStep == pc = "menu_prompt" /\ top'.choice = "5" /\ top' # top

C19_Step ==
    /\ ChangeModeStep =>
          /\ top'.mode = IF ModeEntry(top'.typed) \in {"audio", "video"}
                         THEN ModeEntry(top'.typed) ELSE top.mode
          /\ top'.quality = top.quality
    /\ ChangeQualityStep =>
          /\ top'.quality = IF ValidQualitySelection(top'.typed)
                            THEN QualityMenu[int(strip(top'.typed)).value]
                            ELSE top.quality
          /\ top'.mode = top.mode

\* C19: menu settings change only through a valid selection.  After the
\* change-mode action the mode is the selected one if the selection is audio
\* or video and is unchanged otherwise; after the change-quality action the
\* quality is the selected entry of (unbounded, 360, 480, 720, 1080, 1440,
\* 2160) if the selection is valid, also when unbounded is selected while a
\* bound is set, and is unchanged otherwise: an invalid selection is never
\* taken for unbounded.
C19_SettingsFollowSelection == [][C19_Step]_vars

\* the bound 720 was set, and then the selection 8 of the quality menu, which
\* has seven entries, left it in place
C19_Witness ==
    /\ pc = "menu_prompt"
    /\ top.choice = "5"
    /\ top.typed = <<"8">>
    /\ top.selected_quality.sentinel
    /\ top.quality = <<720>>

-----------------------------------------------------------------------------
(* C20: the settings of run_menu between the two change actions.            *)

\* run_menu is running and the settings are what a menu offers
SettingsInRange ==
    top.menu =>
      /\ top.mode \in {"audio", "video"}
      /\ \E i \in DOMAIN QualityMenu : top.quality = QualityMenu[i]

\* the download in progress was dispatched by the loop with its settings
DispatchedWithSettings ==
    (top.menu /\ args.fn = "perform_download") =>
      /\ args.mode = top.mode
      /\ args.quality = top.quality
      /\ top.choice \in {"1", "2"}

C20_Step ==
    /\ (top.menu /\ ~ChangeModeStep /\ ~ChangeQualityStep) =>
          /\ top'.mode = top.mode
          /\ top'.quality = top.quality
    /\ SettingsInRange'
    /\ DispatchedWithSettings'

\* C20: in run_menu every action other than change mode and change quality
\* (single download, bulk download, bulk conversion, any unrecognized input)
\* leaves mode and quality as they are, whatever its outcome; so the mode is
\* always audio or video, the quality always one of the seven menu entries,
\* and every download the loop dispatches uses the mode and quality current
\* at dispatch, the same for all URLs of one bulk download.
C20_SettingsOnlyChangeByChangeActions == [][C20_Step]_vars

\* the second URL of a bulk download is being fetched as audio bounded by 720,
\* the settings made before the bulk download was chosen
C20_Witness ==
    /\ top.menu
    /\ top.choice = "2"
    /\ top.idx = 2
    /\ args.fn = "perform_download"
    /\ args.mode = "audio"
    /\ args.quality = <<720>>
    /\ top.mode = "audio"
    /\ top.quality = <<720>>

-----------------------------------------------------------------------------
(* The logger and the session log of run_menu.  In this specification main  *)
(* runs once, with the menu or without it, and what the operations do is    *)
(* left out but for the logging calls they make: a call of log_info or      *)
(* log_error may come at any moment.  The message of the k-th call is "mk", *)
(* so that every entry tells when it was emitted.                           *)

MaxLogCalls == 10   \* calls of log_info and log_error in one run

\* the frame of main and run_menu with the logger's module state: printed is
\* what the logger wrote to the terminal itself, calls every logging call so
\* far with whether run_menu was active when it was made
NoLog == [fn |-> "none", _custom_sink |-> "None", log_lines |-> <<>>,
          printed |-> <<>>, calls |-> <<>>]

\* main.py line 171
Entry(level, message) == "[" \o level \o "] " \o message

\* push_log that drops the entry that does not fit
push_log_DropsNewest(log_lines, level, message) ==
    LET appended == Append(log_lines, Entry(level, message))
    IN  IF Len(appended) > 8 THEN SubSeq(appended, 1, Len(appended) - 1) ELSE appended

\* main.py lines 170-174
push_log(log_lines, level, message) ==
    LET appended == Append(log_lines, Entry(level, message))
    IN  IF Len(appended) > 8 THEN Tail(appended) ELSE appended

InitLog ==
    /\ fs = [p \in {} |-> "orig"]
    /\ ffmpegOnPath = TRUE
    /\ pc = "start"
    /\ args = NoArgs
    /\ loc = NoLoc
    /\ ret = NoRet
    /\ cv = NoCv
    /\ probes = 0
    /\ toolRuns = 0
    /\ fs0 = fs
    /\ logs = {}
    /\ hist = <<>>
    /\ converted = {}
    /\ opsDone = 0
    /\ top = NoLog

\* the variables the logger does not touch
NotLogged == <<fs, ffmpegOnPath, args, loc, cv, probes, toolRuns, fs0, logs, hist,
               converted, opsDone>>

\* main.py lines 141-157: main with arguments, run_menu is not called
LogOneShot ==
    /\ pc = "start"
    /\ pc' = "one_shot"
    /\ top' = [NoLog EXCEPT !.fn = "main"]
    /\ UNCHANGED ret
    /\ UNCHANGED NotLogged

\* main.py lines 138-139 and 160-176: run_menu starts and sets the sink
LogMenuEnter ==
    /\ pc = "start"
    /\ pc' = "menu"
    /\ top' = [NoLog EXCEPT !.fn = "main", !._custom_sink = "push_log"]
    /\ UNCHANGED ret
    /\ UNCHANGED NotLogged

\* logger.py lines 12-23: log_info (level INFO) and log_error (level ERROR)
LogCall ==
    /\ pc \in {"one_shot", "menu", "main_done"}
    /\ Len(top.calls) < MaxLogCalls
    /\ \E level \in {"INFO", "ERROR"} :
          LET message == "m" \o ToString(Len(top.calls) + 1)
              call == [level |-> level, message |-> message, in_menu |-> pc = "menu"]
          IN  IF top._custom_sink # "None"
              THEN top' = [top EXCEPT !.log_lines = push_log(@, level, message),
                                      !.calls = Append(@, call)]
              ELSE top' = [top EXCEPT !.printed = Append(@, <<level, message>>),
                                      !.calls = Append(@, call)]
    /\ UNCHANGED <<pc, ret>>
    /\ UNCHANGED NotLogged

\* run_menu that clears the sink only when it returns
LogMenuExit_NoFinally ==
    /\ pc = "menu"
    /\ pc' = "main_done"
    /\ \/ /\ ret' = ReturnCodeOf("main", EXIT_OK)
          /\ top' = [top EXCEPT !._custom_sink = "None"]
       \/ /\ \E exc \in {"FileNotFoundError", "KeyboardInterrupt"} : ret' = Raise("main", exc)
          /\ top' = top
    /\ UNCHANGED NotLogged

\* main.py lines 299-301 and 305-306: run_menu returns at option 6 or an
\* exception ends it, and the finally clause clears the sink
LogMenuExit ==
    /\ pc = "menu"
    /\ pc' = "main_done"
    /\ \/ ret' = ReturnCodeOf("main", EXIT_OK)
       \/ \E exc \in {"FileNotFoundError", "KeyboardInterrupt"} : ret' = Raise("main", exc)
    /\ top' = [top EXCEPT !._custom_sink = "None"]
    /\ UNCHANGED NotLogged

\* main.py lines 145-157: main without the menu returns
LogOneShotExit ==
    /\ pc = "one_shot"
    /\ pc' = "main_done"
    /\ \E code \in {EXIT_OK, EXIT_USER_ERROR, EXIT_DOWNLOAD_ERROR, EXIT_FFMPEG_ERROR} :
          ret' = ReturnCodeOf("main", code)
    /\ UNCHANGED top
    /\ UNCHANGED NotLogged

NextLog ==
    \/ LogOneShot
    \/ LogMenuEnter
    \/ LogCall
    \/ LogMenuExit
    \/ LogOneShotExit

SpecLog == InitLog /\ [][NextLog]_vars

-----------------------------------------------------------------------------
(* C21 and C22: the session log and the scope of the sink.                  *)

\* the entries of the logging calls made while run_menu was active, in the
\* order of the calls
EmittedInMenu ==
    LET made == SelectSeq(top.calls, LAMBDA c : c.in_menu)
    IN  [i \in DOMAIN made |-> Entry(made[i].level, made[i].message)]

\* the last n elements of s
LastN(s, n) == SubSeq(s, Len(s) - n + 1, Len(s))

\* C21: the menu's log buffer is a bounded FIFO: after k logging calls made
\* while the loop is active it holds exactly the last min(k, 8) entries in
\* the order they were emitted; it never holds more than 8, and an overflow
\* evicts the oldest entry only.
C21_LogBufferIsBoundedFifo ==
    LET k == Len(EmittedInMenu)
    IN  /\ Len(top.log_lines) <= 8
        /\ Len(top.log_lines) = IF k < 8 THEN k ELSE 8
        /\ top.log_lines = LastN(EmittedInMenu, Len(top.log_lines))

\* ten calls were made in the menu: the buffer starts with the third entry
\* and ends with the tenth
C21_Witness ==
    /\ Len(EmittedInMenu) = 10
    /\ Len(top.log_lines) = 8
    /\ top.log_lines[1] = "[INFO] m3"
    /\ top.log_lines[8] = "[ERROR] m10"

\* what the logger printed itself for the calls made outside run_menu
PrintedOutsideMenu ==
    LET made == SelectSeq(top.calls, LAMBDA c : ~c.in_menu)
    IN  [i \in DOMAIN made |-> <<made[i].level, made[i].message>>]

\* run_menu is active: entered and not yet left
MenuActive == pc = "menu"

C22_Step ==
    /\ Len(top'.calls) = Len(top.calls) + 1 =>
          LET call == Last(top'.calls)
          IN  IF MenuActive
              THEN /\ top'.log_lines # <<>>
                   /\ Last(top'.log_lines) = Entry(call.level, call.message)
                   /\ top'.printed = top.printed
              ELSE /\ top'.printed = Append(top.printed, <<call.level, call.message>>)
                   /\ top'.log_lines = top.log_lines
    /\ (top'._custom_sink = "push_log") <=> MenuActive'
    /\ top'.printed = PrintedOutsideMenu'

\* C22: from the entry to run_menu until it exits, every log_info and
\* log_error call is appended to the menu's log buffer and not printed; once
\* run_menu has exited, by the exit option or by an exception, the sink is
\* cleared and logging prints directly again; outside run_menu the sink is
\* never set.
C22_SinkScopedToMenu == [][C22_Step]_vars

\* an exception ended run_menu after a call that went to the buffer, and a
\* call made afterwards was printed
C22_Witness ==
    /\ pc = "main_done"
    /\ ret.kind = "raise"
    /\ Len(top.calls) = 2
    /\ top.calls[1].in_menu
    /\ ~top.calls[2].in_menu
    /\ top.log_lines = <<"[ERROR] m1">>
    /\ top.printed = <<<<"INFO", "m2">>>>

-----------------------------------------------------------------------------
(* C23: the bulk download of run_menu.                                      *)

\* a download of the bulk download in progress has returned
BulkItemOver == pc = "returned" /\ top.menu /\ top.choice = "2"

\* the step leaves the place where the program is
Moves == <<pc, top, args>>' # <<pc, top, args>>

\* the step calls perform_download for element i of the list
Downloads(i) ==
    /\ pc' = "pd_fetching"
    /\ args'.fn = "perform_download"
    /\ args'.url = top'.urls[i]
    /\ top'.idx = i

C23_Step ==
    /\ (pc = "menu_prompt" /\ top'.choice = "2" /\ Moves) =>
          \/ /\ top'.urls = <<>>
             /\ pc' = "menu_prompt"
             /\ UNCHANGED <<args, fs>>
          \/ /\ top'.urls # <<>>
             /\ Downloads(1)
    /\ (BulkItemOver /\ Moves) =>
          /\ ret.kind = "code"
          /\ IF top.idx < Len(top.urls)
             THEN /\ Downloads(top.idx + 1)
                  /\ top'.urls = top.urls
             ELSE pc' = "menu_prompt"
    /\ (top.menu /\ top.choice = "2" /\ pc \in {"pd_fetching", "pd_normalizing"}) =>
          UNCHANGED top

\* C23: for a collected list of URLs that is not empty, run_menu calls
\* perform_download exactly once per element, in the order of the list, one
\* at a time; a download that fails neither stops nor reorders the ones that
\* remain, and after the last the loop is back at the menu.  With an empty
\* list no download is called.
C23_BulkDownloadsEachInOrder == [][C23_Step]_vars

\* the second URL of a list of two is being fetched after the first download
\* failed in the fetch and left nothing
C23_Witness ==
    /\ top.menu
    /\ top.choice = "2"
    /\ top.urls = <<"http://u", "http://v">>
    /\ top.idx = 2
    /\ pc = "pd_fetching"
    /\ args.url = "http://v"
    /\ \A p \in DOMAIN fs0 : fs0[p] = "orig"

-----------------------------------------------------------------------------
(* C26: the status the banner shows.                                        *)

\* the screen has been rendered and the loop waits for a menu choice
Rendered == pc = "menu_prompt" /\ top.menu

\* a call the menu dispatched is in progress or has just returned
Dispatched == top.menu /\ pc \in {"pd_fetching", "pd_normalizing", "bulk_loop", "returned"}

\* C26: in run_menu, wherever the screen is rendered and the loop blocks for
\* a menu choice, status_message is "Ready" and status_progress is absent: the
\* values of an operation in progress ("Downloading...", "Downloading i/n...",
\* "Converting...", a progress ratio) are set and reset within one iteration
\* with no render in between, and the early returns (no URL, no URLs, missing
\* path) do not change them.
C26_StatusReadyWhenRendered ==
    /\ Rendered =>
          /\ top.status_message = "Ready"
          /\ top.status_progress = NoProgress
    /\ Dispatched =>
          /\ top.status_message =
                CASE top.choice = "1" -> "Downloading..."
                  [] top.choice = "2" ->
                       IF top.idx = 1 /\ Len(top.urls) = 1 THEN "Downloading 1/1..."
                       ELSE IF top.idx = 1 /\ Len(top.urls) = 2 THEN "Downloading 1/2..."
                       ELSE IF top.idx = 2 /\ Len(top.urls) = 2 THEN "Downloading 2/2..."
                       ELSE DownloadingOf(top.idx, Len(top.urls))
                  [] top.choice = "3" -> "Converting..."
          /\ top.status_progress # NoProgress

\* the menu is rendered again after a bulk download of two URLs
C26_Witness ==
    /\ Rendered
    /\ top.choice = "2"
    /\ top.ops = 2
    /\ top.status_message = "Ready"
    /\ top.status_progress = NoProgress

-----------------------------------------------------------------------------
(* The polling URL collector, _prompt_bulk_urls_windows, called by          *)
(* prompt_bulk_urls.  The user copies to the clipboard and presses keys at  *)
(* any moment; a key pressed waits in the console's input queue until the   *)
(* collector reads it.  The user types lines: each is a run of keys ended   *)
(* with Enter, and the quit command is the key q alone.                     *)

MaxCopies == 2   \* times the user copies something new to the clipboard
MaxLines == 2    \* lines the user types, the quit command included

Enter == "\r"

\* the key "\x08"
Backspace == "BS"

\* what the clipboard may hold: nothing, two URLs, a text that is no URL
ClipValues ==
    {<<>>, <<"h", "t", "t", "p", "c">>, <<" ", "h", "t", "t", "p", "d">>, <<"x">>}

\* the lines the user may type: the keys pressed before Enter and the text
\* they make; quit marks the quit command, which takes no Enter
TypedLines ==
    {[keys |-> <<"h", "t", "t", "p">>, text |-> <<"h", "t", "t", "p">>, quit |-> FALSE],
     [keys |-> <<"h", "t", "t", "p", "q">>, text |-> <<"h", "t", "t", "p", "q">>,
      quit |-> FALSE],
     [keys |-> <<"h", "t", "t", "p", "Q">>, text |-> <<"h", "t", "t", "p", "Q">>,
      quit |-> FALSE],
     [keys |-> <<"h", "t", "t", "p", "x", Backspace>>, text |-> <<"h", "t", "t", "p">>,
      quit |-> FALSE],
     [keys |-> <<"x">>, text |-> <<"x">>, quit |-> FALSE],
     [keys |-> <<>>, text |-> <<>>, quit |-> FALSE],
     [keys |-> <<"q">>, text |-> <<"q">>, quit |-> TRUE]}

\* the keys of a line with the Enter that ends it
KeysOf(line) == IF line.quit THEN line.keys ELSE Append(line.keys, Enter)

\* main.py lines 60-74: the clipboard's text stripped, <<>> (None or "") when
\* there is none
read_clipboard(clipboard) == strip(clipboard)

\* the frame of _prompt_bulk_urls_windows and what is around it.  clipboard:
\* the text on the clipboard; keys: the keys pressed and not yet read;
\* pending: the keys of the line being typed that are still to be pressed;
\* lines: the lines typed so far, the one being typed last; copies: how often
\* the user has copied
NoCollector == [fn |-> "none", urls |-> <<>>, last_clip |-> <<>>, buffer |-> <<>>,
                clipboard |-> <<>>, keys |-> <<>>, pending |-> <<>>, lines |-> <<>>,
                copies |-> 0]

InitCollector ==
    /\ fs = [p \in {} |-> "orig"]
    /\ ffmpegOnPath = TRUE
    /\ pc = "start"
    /\ args = NoArgs
    /\ loc = NoLoc
    /\ ret = NoRet
    /\ cv = NoCv
    /\ probes = 0
    /\ toolRuns = 0
    /\ fs0 = fs
    /\ logs = {}
    /\ hist = <<>>
    /\ converted = {}
    /\ opsDone = 0
    /\ \E clipboard \in ClipValues : top = [NoCollector EXCEPT !.clipboard = clipboard]

\* the variables the collector does not touch
NotCollected == <<fs, ffmpegOnPath, args, loc, cv, probes, toolRuns, fs0, logs, hist,
                  converted, opsDone>>

Collecting == pc \in {"col_clipboard", "col_keyboard"}

\* the user copies something else to the clipboard, or clears it
ColCopy ==
    /\ pc \in {"start", "col_clipboard", "col_keyboard"}
    /\ top.copies < MaxCopies
    /\ \E clipboard \in ClipValues \ {top.clipboard} :
          top' = [top EXCEPT !.clipboard = clipboard, !.copies = @ + 1]
    /\ UNCHANGED <<pc, ret>>
    /\ UNCHANGED NotCollected

\* the user presses the next key: of the line being typed, or the first of a
\* new line; the quit command is the last thing the user types
ColKeyPress ==
    /\ Collecting
    /\ IF top.pending # <<>>
       THEN top' = [top EXCEPT !.keys = Append(@, Head(top.pending)),
                               !.pending = Tail(@)]
       ELSE /\ Len(top.lines) < MaxLines
            /\ top.lines # <<>> => ~Last(top.lines).quit
            /\ \E line \in TypedLines :
                  top' = [top EXCEPT !.keys = Append(@, Head(KeysOf(line))),
                                     !.pending = Tail(KeysOf(line)),
                                     !.lines = Append(@, line)]
    /\ UNCHANGED <<pc, ret>>
    /\ UNCHANGED NotCollected

\* main.py lines 325-333 and 338-346: prompt_bulk_urls reads the baseline and
\* the collector starts with it
ColStart ==
    /\ pc = "start"
    /\ top' = [top EXCEPT !.fn = "_prompt_bulk_urls_windows",
                          !.last_clip = read_clipboard(top.clipboard)]
    /\ pc' = "col_clipboard"
    /\ UNCHANGED ret
    /\ UNCHANGED NotCollected

\* the clipboard check that does not remember what it saw
ColClipboard_EveryPoll ==
    /\ pc = "col_clipboard"
    /\ LET clip == read_clipboard(top.clipboard)
       IN  IF clip # <<>>
           THEN top' = [top EXCEPT !.urls = IF _validate_url(clip).exc = "none"
                                            THEN Append(@, _validate_url(clip).value)
                                            ELSE @,
                                   !.last_clip = clip]
           ELSE top' = top
    /\ pc' = "col_keyboard"
    /\ UNCHANGED ret
    /\ UNCHANGED NotCollected

\* main.py lines 349-359: the clipboard check of one iteration
ColClipboard ==
    /\ pc = "col_clipboard"
    /\ LET clip == read_clipboard(top.clipboard)
       IN  IF clip # <<>> /\ clip # top.last_clip
           THEN top' = [top EXCEPT !.urls = IF _validate_url(clip).exc = "none"
                                            THEN Append(@, _validate_url(clip).value)
                                            ELSE @,
                                   !.last_clip = clip]
           ELSE top' = top
    /\ pc' = "col_keyboard"
    /\ UNCHANGED ret
    /\ UNCHANGED NotCollected

\* main.py lines 361-388: the keyboard check of one iteration and the sleep
\* (an empty line continues without the sleep)
ColKeyboard ==
    /\ pc = "col_keyboard"
    /\ IF top.keys = <<>>
       THEN /\ pc' = "col_clipboard"
            /\ UNCHANGED <<top, ret>>
       ELSE LET ch == Head(top.keys)
            IN  IF lower(<<ch>>) = <<"q">>
                THEN /\ pc' = "returned"
                     /\ ret' = [NoRet EXCEPT !.fn = "_prompt_bulk_urls_windows",
                                             !.kind = "value"]
                     /\ top' = [top EXCEPT !.keys = Tail(@)]
                ELSE /\ pc' = "col_clipboard"
                     /\ UNCHANGED ret
                     /\ IF ch = Enter
                        THEN LET entry == strip(top.buffer)
                             IN  top' = [top EXCEPT
                                    !.keys = Tail(@),
                                    !.buffer = <<>>,
                                    !.urls = IF entry # <<>> /\ _validate_url(entry).exc = "none"
                                             THEN Append(@, _validate_url(entry).value)
                                             ELSE @]
                        ELSE IF ch = Backspace
                        THEN top' = [top EXCEPT
                                    !.keys = Tail(@),
                                    !.buffer = IF @ # <<>> THEN SubSeq(@, 1, Len(@) - 1)
                                               ELSE @]
                        ELSE top' = [top EXCEPT !.keys = Tail(@),
                                                !.buffer = Append(@, ch)]
    /\ UNCHANGED NotCollected

NextCollector ==
    \/ ColCopy
    \/ ColKeyPress
    \/ ColStart
    \/ ColClipboard
    \/ ColKeyboard

SpecCollector == InitCollector /\ [][NextCollector]_vars

-----------------------------------------------------------------------------
(* C24 and C25: what the polling collector enqueues.                        *)

\* the URLs in the queue that were typed, in the order of the queue
TypedPart(urls) == SelectSeq(urls, LAMBDA u : \E line \in TypedLines : u = Str(line.text))

\* the URLs in the queue that came from the clipboard
CopiedPart(urls) ==
    SelectSeq(urls, LAMBDA u : \E clipboard \in ClipValues : u = Str(strip(clipboard)))

\* the lines whose Enter the user has pressed
EnterPressed ==
    {j \in DOMAIN top.lines : /\ ~top.lines[j].quit
                              /\ j < Len(top.lines) \/ top.pending = <<>>}

\* how many of them the collector has read up to the Enter
EntersRead ==
    Cardinality(EnterPressed) - Cardinality({i \in DOMAIN top.keys : top.keys[i] = Enter})

\* the texts of the lines read up to the Enter that begin with "http"
ValidLinesRead ==
    LET entered == SubSeq(top.lines, 1, EntersRead)
        valid == SelectSeq(entered, LAMBDA line : startswith(strip(line.text), Chars_http))
    IN  [i \in DOMAIN valid |-> Str(strip(valid[i].text))]

CollectorReturned == pc = "returned" /\ top.fn = "_prompt_bulk_urls_windows"

\* C24: of the lines typed to the polling collector, every one that is ended
\* with Enter and begins with "http" is appended to the queue, every other
\* one is rejected without ending collection, and collection ends when the
\* user enters the letter q as the quit command; a typed URL that contains
\* the letter q or Q is enqueued like any other valid line.
C24_AsStated ==
    top.fn = "_prompt_bulk_urls_windows" =>
      /\ TypedPart(top.urls) = ValidLinesRead
      /\ CollectorReturned =>
            /\ top.lines # <<>>
            /\ Last(top.lines).quit

\* the step is the clipboard check of an iteration
ClipboardCheck == pc = "col_clipboard" /\ pc' = "col_keyboard"

\* some text that begins with "http" makes the string u
IsHttpUrl(u) ==
    \E cs \in {strip(clipboard) : clipboard \in ClipValues}
              \cup {strip(line.text) : line \in TypedLines} :
        startswith(cs, Chars_http) /\ u = Str(cs)

C25_Step ==
    /\ pc = "start" /\ pc' # "start" =>
          /\ top'.urls = <<>>
          /\ top'.last_clip = strip(top.clipboard)
    /\ ClipboardCheck =>
          LET observed == strip(top.clipboard)
          IN  /\ IF observed # <<>> /\ observed # top.last_clip
                 THEN /\ top'.urls = IF startswith(observed, Chars_http)
                                     THEN Append(top.urls, Str(observed))
                                     ELSE top.urls
                      /\ top'.last_clip = observed
                 ELSE /\ top'.urls = top.urls
                      /\ top'.last_clip = top.last_clip
              /\ top'.keys = top.keys
              /\ top'.buffer = top.buffer
    /\ pc' = "col_keyboard" => pc \in {"col_clipboard", "col_keyboard"}
    /\ (pc = "col_keyboard" /\ pc' # pc) =>
          /\ top'.last_clip = top.last_clip
          /\ top'.clipboard = top.clipboard
    /\ top'.urls = top.urls \/ \E u \in {top'.urls[Len(top'.urls)]} : top'.urls = Append(top.urls, u)
    /\ Len(CopiedPart(top'.urls)) <= top'.copies
    /\ \A i \in DOMAIN top'.urls : IsHttpUrl(top'.urls[i])

\* C25: whatever the interleaving of clipboard changes and key presses, the
\* polling collector does not enqueue the value that is on the clipboard when
\* collection starts; each poll that observes a non-empty value different
\* from the last one observed enqueues it exactly once if it begins with
\* "http" and ignores it otherwise; an unchanged clipboard is never enqueued
\* again by a later poll; in each iteration the clipboard check is over before
\* the keyboard check; and the queue returned keeps the order of enqueueing
\* and holds only strings that begin with "http".
C25_ClipboardEnqueuedOncePerChange == [][C25_Step]_vars

\* the collector returned a URL copied after the start, a typed one and a
\* second copied one, in that order
C25_Witness ==
    /\ CollectorReturned
    /\ top.urls = <<"httpc", "http", "httpd">>
    /\ top.copies = 2

=============================================================================
